---- MODULE Spec2Model ----
(***************************************************************************)
(* Model of the NukaCola LED cluster engine (LedCluster.h), of the         *)
(* non-volatile settings record behind it (NonVol.h) and of the sketch     *)
(* that drives it from the setting button (InputHelper.h, the .ino file).  *)
(*                                                                         *)
(* The persisted record lives in EEPROM (variable nv).  The engine keeps   *)
(* an in-memory copy (variable settings) that every mutator reloads from   *)
(* EEPROM before it acts.  The target is an ATmega328: int is 16 bits,     *)
(* long is 32 bits.  A lead angle is kept as the exact fraction            *)
(* 360 * (elapsed % period) / period.  The float the code holds differs    *)
(* from it by rounding only: at periods of 1000..10000 ms that is less     *)
(* than the distance of any such fraction from the next whole or half      *)
(* degree, so the patterns' truncations and roundings come out the same.   *)
(***************************************************************************)
EXTENDS Integers, FiniteSets, Sequences, TLC

VARIABLES
    pc,               \* "boot" before LedCluster::LedCluster ran, "run" after
    nv,               \* the Settings record held in EEPROM at address 0
    settings,         \* LedCluster::settings, the in-memory copy
    revTimePeriodMs,  \* LedCluster::revTimePeriodMs (long)
    lastOp,           \* name of the public method that ran last
    lastArg,          \* the argument it was given
    ret,              \* what it returned: a bool from a mutator, an int
                      \* from globaliseBrightness
    wrote,            \* whether it issued an EEPROM.put (NonVol::operator=)
    running,          \* LedCluster::running
    now,              \* what millis() returns, as the long it is stored in
    startTimeMs,      \* LedCluster::startTimeMs (long)
    lastRevolution,   \* the static long lastRevolution of LedCluster::poll
    leds,             \* LedCluster::leds: angle, brightness, extra per LED
    pins,             \* the duty cycle last written to each LED's pin
    info,             \* the LightLocationInfo the last poll() sampled
    pinWrites,        \* number of analogWrite calls the last method made
    randomCalls,      \* number of random() calls the last method made
    mode,             \* the sketch's SettingModes mode
    settingBtn,       \* settingSelectionBtn: lastState, lastChangeMs,
                      \* trigger_timeout
    settingPin,       \* the level digitalRead gives on the setting button
    lastModeChange,   \* the sketch's lastModeChange
    modeAtPress,      \* the mode the sketch was in when the setting button
                      \* poll saw the present press
    loopStep,         \* the call loop() makes next
    modeLED,          \* the level last written to the mode indicator LED
    speedLED,         \* the level last written to the speed indicator LED
    brightnessLED,    \* the level last written to the brightness indicator
                      \* LED
    upBtn,            \* lastState of upBtn; its lastChangeMs and
                      \* trigger_timeout reach no callback, upBtn having no
                      \* timeout callback and upBtnToggled taking no duration
    downBtn,          \* lastState of downBtn, likewise
    settingTrace      \* what the last settingSelectionBtn.poll() read and
                      \* which callback it made, the state handed to the
                      \* last toggle callback and the number of timeout
                      \* callbacks since

\* the engine's run-time state
ledState == << running, now, startTimeMs, lastRevolution, leds, pins, info >>
\* the sketch's state
sketchState == << mode, settingBtn, settingPin, lastModeChange, modeAtPress,
                 loopStep, modeLED, speedLED, brightnessLED, upBtn, downBtn,
                 settingTrace >>
\* the three indicator LEDs
indicatorLeds == << modeLED, speedLED, brightnessLED >>

vars == << pc, nv, settings, revTimePeriodMs, lastOp, lastArg, ret, wrote,
           running, now, startTimeMs, lastRevolution, leds, pins, info,
           pinWrites, randomCalls, mode, settingBtn, settingPin, lastModeChange,
           modeAtPress, loopStep, modeLED, speedLED, brightnessLED, upBtn,
           downBtn, settingTrace >>

----------------------------------------------------------------------------
(* Program constants                                                       *)

VERSION == 1

JustOn == 0
ChaseClockwise == 1
ChaseAntiClockwise == 2
ChaseBoth == 3
WaveClockwise == 4
WaveAntiClockwise == 5
Throb == 6
Throb2 == 7
Heartbeat == 8
Raindrop == 9
Flames == 10
Static == 11
PATTERN_COUNT == 12

MIN_BRIGHTNESS == 1
MAX_BRIGHTNESS == 20
DEFAULT_BRIGHTNESS == 18

MIN_SPEED == 6
MAX_SPEED == 60
SPEED_STEP == 3
DEFAULT_SPEED == 18

\* enum SettingModes
Sleep == 0
Running == 1
Pattern == 2
Brightness == 3
Speed == 4

RAINDROP_ANGLE == 12
RAMPUP_ANGLE == 3
RAMPDOWN_ANGLE == RAINDROP_ANGLE - RAMPUP_ANGLE

\* the number of LEDs the sketch builds its cluster over
DisplayLeds == 6

\* the delay(10) between the two reads of InputHelper::poll
ButtonDelayMs == 10
\* the timeout_duration_ms of settingSelectionBtn
PowerTimeoutMs == 2000
\* the idle time after which loop() leaves a setting mode
InactivityMs == 10000

\* the delay(20) that ends LedCluster::poll
PollDelayMs == 20
\* the timeout_duration_ms InputHelper takes when it is given none
DefaultTimeoutMs == 10000
\* the delay(80) of the blink toggleClusterValue gives a changed setting
BlinkMs == 80

----------------------------------------------------------------------------
(* Bounds of the model                                                     *)

\* Relative steps tried: -1, 0, 1, and +-BigStep to overshoot a range.
BigStep == 100
\* Absolute pattern arguments tried: -PatternSlack .. PATTERN_COUNT + PatternSlack.
PatternSlack == 1
\* Largest percentage tried by the percentage sweep.
MaxPercent == 100
\* Largest raw brightness handed to global scaling by the scaling sweep.
MaxRaw == 100
\* How long, in ms, an engine built at time 0 has been left alone when a
\* run-time specification starts.
EngineAge == 3000
\* The last millis() reading a run-time specification lets a call start at.
MaxNow == 3040
\* LEDs of the cluster, and ms of uptime followed, where the three buttons
\* and the serial line are all in play
PanelLeds == 1
ValueUptime == 500
\* where the serial line is in play too: how long each stretch of uptime is
\* followed, the uptime at which a stand whose setting button is held since
\* power-up is picked up, and the uptime at which a stand left in a setting
\* mode is picked up
PanelSpan == 250
PanelHeldFrom == 1950
PanelIdleFrom == 10400
\* passes of loop() after PanelHeldFrom at which a stand whose setting button
\* was held, let go and pressed again is picked up
RearmedPasses == 42
\* the stretch of millis() followed on either side of the end of the
\* positive longs: WrapLead ms before LongMax to WrapSpan ms past LongMin
WrapLead == 29
WrapSpan == 40
\* the latest of the times at which the engine of that run was built
WrapStartSpan == 9
\* The last millis() reading the sketch specification lets a step of loop()
\* start at.
MaxUptime == 2120
\* the uptime over which a run of short presses is followed, in ms
PressUptime == 700
\* the stretch of uptime over which the return from a setting mode is
\* followed, in ms
InactivityFrom == 9900
InactivityUntil == 10600
\* How far, in ms, one step of passing time moves millis() on.
TickMs == 10
\* Number of LEDs of the engine the life-cycle specification runs.
LifecycleLeds == 2
\* Number of LEDs of the engine the clock specification runs.
ClockLeds == 1
\* Number of further revolutions the periodicity of the cycle clock is
\* followed over.
MaxTurns == 3
\* The times, in ms, at which the engines of the clock specification were built.
ClockStarts == {0, 1, 500, 1999, 2000, EngineAge}
\* Length, in ms, of the window of build times the pattern sweep starts from:
\* one revolution at the highest speed.
SweepWindow == 1000
\* The speeds, in rpm, of the raindrop specification: at 40 rpm a revolution
\* takes 1500 ms and the lead angle is a whole 12 degrees after 50 ms.
RaindropSpeeds == {40, MAX_SPEED}
\* How far below 0 and above 100 the brightnesses handed to the duty cycle
\* conversion reach.
DutySlack == 50
\* The percentages the clock specification hands to setSpeedPercent.
ClockPercents == {10, 100}

Deltas == {-BigStep, -1, 0, 1, BigStep}
\* the sketch steps the pattern by one: toggleClusterValue(inc ? 1 : -1)
PatternDeltas == {-1, 1}
\* the extremes of a 16-bit int
IntMin == -(2^15)
IntMax == 2^15 - 1
PatternArgs == ((-PatternSlack)..(PATTERN_COUNT + PatternSlack)) \cup {IntMin, IntMax}
Percents == {IntMin, -5, 0, 50, 100, 250, IntMax}
SweepPercents == 0..MaxPercent
RawLevels == 0..MaxRaw
DutyInputs == ((-DutySlack)..(100 + DutySlack)) \cup {IntMin, IntMax}
\* the values random() is given to return: random(360 - RAINDROP_ANGLE) gives
\* 0..347, random(-4, 4) gives -4..3 and random(-10, 40) gives -10..39
RaindropDraws == {0, 10, 360 - RAINDROP_ANGLE - 1}
CandleSteps == {-4, 3}
StaticNoises == {-10, 39}

----------------------------------------------------------------------------
(* C integer arithmetic on the target                                      *)

\* int is 16 bits wide: the value an out-of-range result wraps to.
Wrap16(x) == ((x + 2^15) % 2^16) - 2^15

\* C division truncates toward zero (b > 0 everywhere it is used).
CDiv(a, b) == IF a >= 0 \/ a % b = 0 THEN a \div b ELSE (a \div b) + 1

\* C remainder takes the sign of the dividend.
CMod(a, b) == a - b * CDiv(a, b)

\* Arduino's round() macro: ((x)>=0?(long)((x)+0.5):(long)((x)-0.5)),
\* applied to the exact quotient num/den (den > 0).
Round(num, den) ==
    IF num >= 0 THEN (2 * num + den) \div (2 * den)
    ELSE -((2 * (-num) + den) \div (2 * den))

MinOf(a, b) == IF a < b THEN a ELSE b

\* the extremes of a 32-bit long
LongMax == 2147483647
LongMin == -LongMax - 1

\* a - b in 32 bits, for a and b within a long: what the unsigned difference
\* of two readings of millis() becomes when it is stored in a long
LongDiff(a, b) ==
    IF b >= 0 /\ a < LongMin + b
    THEN LongMax - ((b - 1) - ((a + LongMax) + 1))
    ELSE IF b < 0 /\ a > LongMax + b
         THEN LongMin + ((a - (LongMax + b)) - 1)
         ELSE a - b

\* the reading of millis() d ms (d > 0) after the reading t: the counter
\* runs past LongMax into the negative longs
MillisAfter(t, d) ==
    IF t > LongMax - d THEN LongMin + ((d - 1) - (LongMax - t)) ELSE t + d
MaxOf(a, b) == IF a > b THEN a ELSE b

BoolToInt(b) == IF b THEN 1 ELSE 0

----------------------------------------------------------------------------
(* Pure helpers of LedCluster                                              *)

ForceRange_NoMax(value, min_val, max_val) == MaxOf(value, min_val)

\* static int forceRange(value, min_val, max_val)
ForceRange(value, min_val, max_val) == MinOf(MaxOf(value, min_val), max_val)

NeedsDefaults_FlagOnly(s) == s.invalid # 0

\* the constructor's validity test
NeedsDefaults(s) == s.invalid # 0 \/ s.version # VERSION

\* the record the constructor installs when the loaded one is rejected
DefaultSettings ==
    [ version |-> VERSION,
      pattern |-> ChaseClockwise,
      brightnessMultiplier |-> DEFAULT_BRIGHTNESS,
      revsPerMinute |-> DEFAULT_SPEED,
      invalid |-> 0 ]

\* a period left at the one the defaults give
PeriodOf_Stale(rpm) == 60000 \div DEFAULT_SPEED
\* revTimePeriodMs = ((1000.0f * 60.0f) / revsPerMinute), stored in a long
PeriodOf(rpm) == 60000 \div rpm

Differs_Always(newValue, current) == TRUE

\* const bool change = newValue != settings.<field>
Differs(newValue, current) == newValue # current

\* the upper limit setPattern hands to forceRange
PatternUpperLimit == PATTERN_COUNT

\* setPattern: forceRange(pattern, 0, Patterns::PATTERN_COUNT)
SetPatternValue(pattern) == ForceRange(pattern, 0, PatternUpperLimit)

\* updatePattern: (settings.pattern + PATTERN_COUNT + delta) % PATTERN_COUNT
UpdatePatternValue(current, delta) ==
    CMod(Wrap16(current + PATTERN_COUNT + delta), PATTERN_COUNT)

\* updateBrightness: settings.brightnessMultiplier + delta
UpdateBrightnessValue(current, delta) == Wrap16(current + delta)

UpdateSpeedValue_NoStep(current, delta) == Wrap16(current + delta)

\* updateSpeed: settings.revsPerMinute + (delta * SPEED_STEP)
UpdateSpeedValue(current, delta) == Wrap16(current + Wrap16(delta * SPEED_STEP))

BrightnessFromPercent_Tenth(percent) == CDiv(Wrap16(percent * 10), 100)

\* setBrightnessPercent: (percent * MAX_BRIGHTNESS) / 100
BrightnessFromPercent(percent) == CDiv(Wrap16(percent * MAX_BRIGHTNESS), 100)

SpeedFromPercent_Affine(percent) ==
    MIN_SPEED + CDiv(Wrap16((MAX_SPEED - MIN_SPEED) * percent), 100)

\* setSpeedPercent: (MAX_SPEED * percent) / 100
SpeedFromPercent(percent) == CDiv(Wrap16(MAX_SPEED * percent), 100)

\* Signed overflow of the product is undefined: the build either wraps it
\* to 16 bits or folds the scaling exactly; both agree while it fits.
BrightnessFromPercentOutcomes(percent) ==
    { BrightnessFromPercent(percent), CDiv(percent * MAX_BRIGHTNESS, 100) }

SpeedFromPercentOutcomes(percent) ==
    { SpeedFromPercent(percent), CDiv(MAX_SPEED * percent, 100) }

\* the percentages setBrightness and setSpeed print for the applied value
BrightnessPercentOf(mult) == CDiv(100 * mult, MAX_BRIGHTNESS)
SpeedPercentOf(rpm) == CDiv(100 * rpm, MAX_SPEED)

GlobaliseBrightness_Truncating(mult, brightness) ==
    IF mult # MAX_BRIGHTNESS
    THEN CDiv(mult * brightness, MAX_BRIGHTNESS)
    ELSE brightness

\* globaliseBrightness, for the multiplier it reads back from EEPROM
GlobaliseBrightness(mult, brightness) ==
    IF mult # MAX_BRIGHTNESS
    THEN Round(mult * brightness, MAX_BRIGHTNESS)
    ELSE brightness

----------------------------------------------------------------------------
(* The cycle clock, the patterns and the duty cycle table                  *)

\* the float info->angle as an exact fraction num/den, truncated by (int)
Trunc(num, den) == CDiv(num, den)

\* void getCurrentLightInfo(LightLocationInfo * const info), with the lead
\* angle 360.0f * (elapsedMs % period) / period kept as num/den; elapsedMs
\* is a long, negative once more than LongMax ms have passed since start
GetCurrentLightInfo_Unwrapped(t, start, period) ==
    [ num |-> 360 * (t - start),
      den |-> period,
      revolution |-> CDiv(t - start, period) ]

GetCurrentLightInfo(t, start, period) ==
    LET elapsedMs == LongDiff(t, start)
    IN [ num |-> 360 * CMod(elapsedMs, period),
         den |-> period,
         revolution |-> CDiv(elapsedMs, period) ]

\* leds[i].angle = (360.0f / count) * i, for a count that divides 360
LedAngle(count, i) == (360 \div count) * i

\* (int)((info->angle + 360.0f) - led->angle) % 360
ChaseAngleCw_Mirrored(smp, ledAngle) ==
    CMod(Trunc(smp.num + (360 + ledAngle) * smp.den, smp.den), 360)

ChaseAngleCw(smp, ledAngle) ==
    CMod(Trunc(smp.num + (360 - ledAngle) * smp.den, smp.den), 360)

\* (int)((info->angle + 360.0f) + led->angle) % 360
ChaseAngleAcw(smp, ledAngle) ==
    CMod(Trunc(smp.num + (360 + ledAngle) * smp.den, smp.den), 360)

\* round((100.0f * (360 - angle)) / 360.0f)
ChaseLevel(angle) == Round(100 * (360 - angle), 360)

\* int angle = (int)(info->angle - led->angle)
WaveOffset(smp, ledAngle) == Trunc(smp.num - ledAngle * smp.den, smp.den)

\* abs(((angle + 180) % 360) - 180), with C's remainder
WaveAngleCw(offset) ==
    LET a == CMod(offset + 180, 360) - 180 IN IF a < 0 THEN -a ELSE a

\* abs((((360 - angle) + 180) % 360) - 180)
WaveAngleAcw(offset) ==
    LET a == CMod((360 - offset) + 180, 360) - 180 IN IF a < 0 THEN -a ELSE a

\* round((100.0f * (180 - angle)) / 180.0f)
WaveLevel(angle) == Round(100 * (180 - angle), 180)

\* (int)((1.0f + cos(value * RADS_PER_DEGREE)) * 50.0f) for value = 2 * k,
\* k = 0..180, in single precision
ThrobLevels ==
    << 100,  99,  99,  99,  99,  99,  98,  98,  98,  97,  96,  96,  95,  94,  94,
        93,  92,  91,  90,  89,  88,  87,  85,  84,  83,  82,  80,  79,  77,  76,
        74,  73,  71,  70,  68,  67,  65,  63,  62,  60,  58,  56,  55,  53,  51,
        49,  48,  46,  44,  43,  41,  39,  37,  36,  34,  32,  31,  29,  28,  26,
        24,  23,  22,  20,  19,  17,  16,  15,  14,  12,  11,  10,   9,   8,   7,
         6,   5,   5,   4,   3,   3,   2,   1,   1,   1,   0,   0,   0,   0,   0,
         0,   0,   0,   0,   0,   0,   1,   1,   1,   2,   3,   3,   4,   5,   5,
         6,   7,   8,   9,  10,  11,  12,  14,  15,  16,  17,  19,  20,  22,  23,
        25,  26,  28,  29,  31,  32,  34,  36,  37,  39,  41,  43,  44,  46,  48,
        50,  51,  53,  55,  56,  58,  60,  62,  63,  65,  67,  68,  70,  71,  73,
        75,  76,  77,  79,  80,  82,  83,  84,  85,  87,  88,  89,  90,  91,  92,
        93,  94,  94,  95,  96,  96,  97,  98,  98,  98,  99,  99,  99,  99,  99,
       100 >>

\* (int)((1.0f + sin(value * RADS_PER_DEGREE)) * 50.0f) for value = 2 * k
Throb2Levels ==
    <<  50,  51,  53,  55,  56,  58,  60,  62,  63,  65,  67,  68,  70,  71,  73,
        75,  76,  77,  79,  80,  82,  83,  84,  85,  87,  88,  89,  90,  91,  92,
        93,  94,  94,  95,  96,  96,  97,  98,  98,  98,  99,  99,  99,  99,  99,
       100,  99,  99,  99,  99,  99,  98,  98,  98,  97,  96,  96,  95,  94,  94,
        93,  92,  91,  90,  89,  88,  87,  85,  84,  83,  82,  80,  79,  77,  76,
        74,  73,  71,  70,  68,  67,  65,  63,  62,  60,  58,  56,  55,  53,  51,
        49,  48,  46,  44,  43,  41,  39,  37,  36,  34,  32,  31,  29,  28,  26,
        24,  23,  22,  20,  19,  17,  16,  15,  14,  12,  11,  10,   9,   8,   7,
         6,   5,   5,   4,   3,   3,   2,   1,   1,   1,   0,   0,   0,   0,   0,
         0,   0,   0,   0,   0,   0,   1,   1,   1,   2,   3,   3,   4,   5,   5,
         6,   7,   8,   9,  10,  11,  12,  14,  15,  16,  17,  19,  20,  22,  23,
        25,  26,  28,  29,  31,  32,  34,  36,  37,  39,  41,  43,  44,  46,  48,
        50 >>

\* round(abs(180.0f - info->angle)), half of throbMode's value
ThrobIndex(smp) ==
    LET d == 180 * smp.den - smp.num
    IN Round(IF d < 0 THEN -d ELSE d, smp.den)

\* heartbeatMode's value: delta, percent, then ((100 - percent) * 2) - 100
HeartbeatLevel(smp) ==
    LET a == 225 * smp.den - smp.num
        b == 135 * smp.den - smp.num
        delta == Round(MinOf(IF a < 0 THEN -a ELSE a, IF b < 0 THEN -b ELSE b),
                       smp.den)
        percent == Round(100 * delta, 135)
    IN (100 - percent) * 2 - 100

\* const int position = info->angle - led->extra
RaindropPosition(smp, extra) == Trunc(smp.num - extra * smp.den, smp.den)

\* raindropMode's brightness before global scaling
RaindropLevel_NoRampDown(position) ==
    IF position >= 0 /\ position < RAMPUP_ANGLE
    THEN Round(100 * position, RAMPUP_ANGLE)
    ELSE 0

RaindropLevel(position) ==
    IF position >= 0 /\ position < RAMPUP_ANGLE
    THEN Round(100 * position, RAMPUP_ANGLE)
    ELSE IF position >= RAMPUP_ANGLE /\ position < RAINDROP_ANGLE
         THEN 100 - Round(100 * (position - RAMPUP_ANGLE), RAMPDOWN_ANGLE)
         ELSE 0

\* whether raindropMode goes through globaliseBrightness for this position
RaindropScales(position) == position >= 0 /\ position < RAINDROP_ANGLE

\* static const byte BRIGHTNESS_TO_DUTY_CYCLE[]
BRIGHTNESS_TO_DUTY_CYCLE ==
    <<   0,   1,   2,   3,   4,   5,   6,   7,   8,   9,
        10,  12,  13,  14,  15,  16,  17,  18,  20,  21,
        22,  23,  24,  26,  27,  28,  30,  31,  32,  33,
        35,  36,  38,  39,  40,  42,  43,  45,  46,  48,
        49,  51,  53,  54,  56,  57,  59,  61,  63,  64,
        66,  68,  70,  72,  74,  76,  78,  80,  82,  84,
        86,  88,  90,  93,  95,  97, 100, 102, 105, 107,
       110, 113, 116, 118, 121, 124, 128, 131, 134, 137,
       141, 145, 148, 152, 156, 160, 165, 169, 174, 179,
       184, 189, 195, 201, 207, 214, 221, 229, 237, 245, 255 >>

\* byte brightnessToDutyCycle(int brightness)
BrightnessToDutyCycle_Modular(brightness) ==
    BRIGHTNESS_TO_DUTY_CYCLE[(brightness % Len(BRIGHTNESS_TO_DUTY_CYCLE)) + 1]

BrightnessToDutyCycle(brightness) ==
    BRIGHTNESS_TO_DUTY_CYCLE[ForceRange(brightness, 0, 100) + 1]

----------------------------------------------------------------------------
(* EEPROM contents the engine can be constructed over                      *)

\* unwritten EEPROM: every byte 0xFF
BlankRecord ==
    [ version |-> -1, pattern |-> -1, brightnessMultiplier |-> -1,
      revsPerMinute |-> -1, invalid |-> 255 ]

\* records this version of the engine wrote earlier
ValidRecords ==
    [ version : {VERSION},
      pattern : {JustOn, Static},
      brightnessMultiplier : {MIN_BRIGHTNESS, DEFAULT_BRIGHTNESS, MAX_BRIGHTNESS},
      revsPerMinute : {MIN_SPEED, DEFAULT_SPEED, MAX_SPEED},
      invalid : {0} ]

\* records of another layout version, or flagged invalid: their fields mean nothing
StaleRecords ==
    [ version : {0, VERSION, 2},
      pattern : {3},
      brightnessMultiplier : {25},
      revsPerMinute : {200},
      invalid : {0, 1} ] \ [ version : {VERSION}, pattern : {3},
                             brightnessMultiplier : {25}, revsPerMinute : {200},
                             invalid : {0} ]

BootRecords == {BlankRecord} \cup ValidRecords \cup StaleRecords

----------------------------------------------------------------------------
(* Operations                                                              *)

\* LedCluster::LedCluster(pins, count): set up the LEDs, then load,
\* validate, default and save the settings
Construct(count) ==
    /\ pc = "boot"
    /\ LET loaded == nv
           reset == NeedsDefaults(loaded)
           kept == IF reset THEN DefaultSettings ELSE loaded
       IN /\ settings' = kept
          /\ nv' = IF reset THEN kept ELSE nv
          /\ wrote' = reset
          /\ revTimePeriodMs' = PeriodOf(kept.revsPerMinute)
    /\ startTimeMs' = now
    /\ running' = TRUE
    /\ \E drops \in [1..count -> RaindropDraws] :
           leds' = [i \in 1..count |->
                       [angle |-> LedAngle(count, i - 1),
                        brightness |-> 0,
                        extra |-> drops[i]]]
    /\ pins' = [i \in 1..count |-> 0]
    /\ pinWrites' = 0
    /\ randomCalls' = count
    /\ pc' = "run"
    /\ lastOp' = "construct"
    /\ lastArg' = 0
    /\ ret' = FALSE
    /\ UNCHANGED << now, lastRevolution, info >>
    /\ UNCHANGED sketchState

\* settingsNV = settings, inside if (change): what the record holds afterwards
Persisted_Never(change, updated, stored) == stored
Persisted(change, updated, stored) == IF change THEN updated ELSE stored

\* bool setBrightness(const int value), entered through the public method op:
\* what the call does to the engine's settings
SetBrightnessBody(value, op, arg) ==
    LET loaded == nv
        newValue == ForceRange(value, MIN_BRIGHTNESS, MAX_BRIGHTNESS)
        change == Differs(newValue, loaded.brightnessMultiplier)
        updated == [loaded EXCEPT !.brightnessMultiplier = newValue]
    IN /\ settings' = IF change THEN updated ELSE loaded
       /\ nv' = Persisted(change, updated, nv)
       /\ wrote' = change
       /\ ret' = change
       /\ lastOp' = op
       /\ lastArg' = arg
       /\ UNCHANGED revTimePeriodMs

\* the call made on an engine the sketch is not driving
SetBrightness(value, op, arg) ==
    /\ SetBrightnessBody(value, op, arg)
    /\ pinWrites' = 0
    /\ randomCalls' = 0
    /\ UNCHANGED pc
    /\ UNCHANGED ledState
    /\ UNCHANGED sketchState

\* bool setSpeed(const int speed), entered through the public method op
SetSpeedBody(speed, op, arg) ==
    LET loaded == nv
        newValue == ForceRange(speed, MIN_SPEED, MAX_SPEED)
        change == Differs(newValue, loaded.revsPerMinute)
        updated == [loaded EXCEPT !.revsPerMinute = newValue]
    IN /\ settings' = IF change THEN updated ELSE loaded
       /\ nv' = Persisted(change, updated, nv)
       /\ revTimePeriodMs' =
              IF change THEN PeriodOf(newValue) ELSE revTimePeriodMs
       /\ wrote' = change
       /\ ret' = change
       /\ lastOp' = op
       /\ lastArg' = arg

SetSpeed(speed, op, arg) ==
    /\ SetSpeedBody(speed, op, arg)
    /\ pinWrites' = 0
    /\ randomCalls' = 0
    /\ UNCHANGED pc
    /\ UNCHANGED ledState
    /\ UNCHANGED sketchState

\* bool setPattern(const int pattern), entered through the public method op
SetPatternBody(pattern, op, arg) ==
    LET loaded == nv
        newValue == SetPatternValue(pattern)
        change == Differs(newValue, loaded.pattern)
        updated == [loaded EXCEPT !.pattern = newValue]
    IN /\ settings' = IF change THEN updated ELSE loaded
       /\ nv' = Persisted(change, updated, nv)
       /\ wrote' = change
       /\ ret' = change
       /\ lastOp' = op
       /\ lastArg' = arg
       /\ UNCHANGED revTimePeriodMs

SetPatternCall(pattern, op, arg) ==
    /\ SetPatternBody(pattern, op, arg)
    /\ pinWrites' = 0
    /\ randomCalls' = 0
    /\ UNCHANGED pc
    /\ UNCHANGED ledState
    /\ UNCHANGED sketchState

SetPattern(v) ==
    /\ pc = "run"
    /\ SetPatternCall(v, "setPattern", v)

UpdatePattern(delta) ==
    /\ pc = "run"
    /\ SetPatternCall(UpdatePatternValue(nv.pattern, delta), "updatePattern", delta)

SetBrightnessPercent(percent) ==
    /\ pc = "run"
    /\ \E value \in BrightnessFromPercentOutcomes(percent) :
           SetBrightness(value, "setBrightnessPercent", percent)

UpdateBrightness(delta) ==
    /\ pc = "run"
    /\ SetBrightness(UpdateBrightnessValue(nv.brightnessMultiplier, delta),
                     "updateBrightness", delta)

SetSpeedPercent(percent) ==
    /\ pc = "run"
    /\ \E value \in SpeedFromPercentOutcomes(percent) :
           SetSpeed(value, "setSpeedPercent", percent)

UpdateSpeed(delta) ==
    /\ pc = "run"
    /\ SetSpeed(UpdateSpeedValue(nv.revsPerMinute, delta), "updateSpeed", delta)

\* int globaliseBrightness(int brightness), as a pattern method calls it
Globalise(brightness) ==
    /\ pc = "run"
    /\ settings' = nv
    /\ ret' = GlobaliseBrightness(nv.brightnessMultiplier, brightness)
    /\ lastOp' = "globaliseBrightness"
    /\ lastArg' = brightness
    /\ wrote' = FALSE
    /\ pinWrites' = 0
    /\ randomCalls' = 0
    /\ UNCHANGED << pc, nv, revTimePeriodMs >>
    /\ UNCHANGED ledState
    /\ UNCHANGED sketchState

\* byte brightnessToDutyCycle(int brightness), as updateLedBrightnesses
\* calls it
DutyCycle(brightness) ==
    /\ pc = "run"
    /\ ret' = BrightnessToDutyCycle(brightness)
    /\ lastOp' = "brightnessToDutyCycle"
    /\ lastArg' = brightness
    /\ wrote' = FALSE
    /\ pinWrites' = 0
    /\ randomCalls' = 0
    /\ UNCHANGED << pc, nv, settings, revTimePeriodMs >>
    /\ UNCHANGED ledState
    /\ UNCHANGED sketchState

\* the patterns poll()'s switch has a method for
HasMethod_Any(pattern) == TRUE

HasMethod(pattern) == pattern \in JustOn..Static

\* the scratch value candleMode leaves, random(-4, 4) having returned step:
\* forceRange(led->extra + random(-4, 4), 0, 100)
CandleExtra_Unclamped(extra, step) == extra + step

CandleExtra(extra, step) == ForceRange(extra + step, 0, 100)

\* the LedInfo a pattern method leaves behind, given what random() returned
PatternStep(pattern, mult, smp, led, step, noise) ==
    LET scaled(raw) == [led EXCEPT !.brightness = GlobaliseBrightness(mult, raw)]
        cw == ChaseAngleCw(smp, led.angle)
        acw == ChaseAngleAcw(smp, led.angle)
        position == RaindropPosition(smp, led.extra)
        flame == CandleExtra(led.extra, step)
    IN CASE pattern = JustOn -> scaled(100)
         [] pattern = ChaseClockwise -> scaled(ChaseLevel(cw))
         [] pattern = ChaseAntiClockwise -> scaled(ChaseLevel(acw))
         [] pattern = ChaseBoth -> scaled(ChaseLevel(MinOf(cw, acw)))
         [] pattern = WaveClockwise ->
                scaled(WaveLevel(WaveAngleCw(WaveOffset(smp, led.angle))))
         [] pattern = WaveAntiClockwise ->
                scaled(WaveLevel(WaveAngleAcw(WaveOffset(smp, led.angle))))
         [] pattern = Throb -> scaled(ThrobLevels[ThrobIndex(smp) + 1])
         [] pattern = Throb2 -> scaled(Throb2Levels[ThrobIndex(smp) + 1])
         [] pattern = Heartbeat -> scaled(HeartbeatLevel(smp))
         [] pattern = Raindrop ->
                IF RaindropScales(position)
                THEN scaled(RaindropLevel(position))
                ELSE [led EXCEPT !.brightness = 0]
         [] pattern = Flames ->
                [led EXCEPT !.extra = flame,
                            !.brightness = GlobaliseBrightness(mult, flame)]
         [] pattern = Static ->
                [led EXCEPT !.extra = flame,
                            !.brightness = GlobaliseBrightness(
                                mult, ForceRange(flame + noise, 0, 100))]
         [] OTHER -> led

\* whether poll() draws new raindrop offsets:
\* if (lastRevolution != info.revolution)
RaindropsDue_EveryPoll(last, revolution) == TRUE

RaindropsDue(last, revolution) == last # revolution

\* whether poll() renders: if (running)
PollRenders_Always(isRunning) == TRUE

PollRenders(isRunning) == isRunning

\* void poll(), called at time t on an engine whose running flag and start
\* time are isRunning and start
PollFrom(isRunning, start, t) ==
    /\ now' = MillisAfter(t, PollDelayMs)
    /\ IF PollRenders(isRunning)
       THEN LET smp == GetCurrentLightInfo(t, start, revTimePeriodMs)
                pattern == settings.pattern
                reroll == pattern = Raindrop
                              /\ RaindropsDue(lastRevolution, smp.revolution)
                n == Len(leds)
            IN \E drops \in [1..n -> IF reroll THEN RaindropDraws ELSE {0}],
                  steps \in [1..n -> IF pattern \in {Flames, Static}
                                     THEN CandleSteps ELSE {0}],
                  noises \in [1..n -> IF pattern = Static
                                      THEN StaticNoises ELSE {0}] :
                  LET seeded == [i \in 1..n |->
                                    IF reroll
                                    THEN [leds[i] EXCEPT !.extra = drops[i]]
                                    ELSE leds[i]]
                      rendered == [i \in 1..n |->
                                      PatternStep(pattern, nv.brightnessMultiplier,
                                                  smp, seeded[i], steps[i],
                                                  noises[i])]
                      scales == \E i \in 1..n :
                                    \/ pattern # Raindrop
                                    \/ RaindropScales(
                                           RaindropPosition(smp, seeded[i].extra))
                  IN /\ info' = smp
                     /\ lastRevolution' = smp.revolution
                     /\ leds' = IF HasMethod(pattern) THEN rendered ELSE seeded
                     /\ pins' = IF HasMethod(pattern)
                                THEN [i \in 1..n |->
                                         BrightnessToDutyCycle(rendered[i].brightness)]
                                ELSE pins
                     /\ pinWrites' = IF HasMethod(pattern) THEN n ELSE 0
                     /\ randomCalls' = (IF reroll THEN n ELSE 0)
                                       + (IF pattern \in {Flames, Static} THEN n ELSE 0)
                                       + (IF pattern = Static THEN n ELSE 0)
                     /\ settings' = IF HasMethod(pattern) /\ scales
                                    THEN nv ELSE settings
       ELSE /\ pinWrites' = 0
            /\ randomCalls' = 0
            /\ UNCHANGED << info, lastRevolution, leds, pins, settings >>

\* the start time startUp() takes: startTimeMs = millis()
StartUpTime_Kept(start, t) == start

StartUpTime(start, t) == t

\* void startUp(), called at time t
StartUpAt(t) ==
    IF ~running
    THEN /\ startTimeMs' = StartUpTime(startTimeMs, t)
         /\ running' = TRUE
         /\ PollFrom(TRUE, StartUpTime(startTimeMs, t), t)
    ELSE /\ now' = t
         /\ pinWrites' = 0
         /\ randomCalls' = 0
         /\ UNCHANGED << startTimeMs, running, info, lastRevolution, leds,
                         pins, settings >>

\* void shutdown(), called at time t
ShutdownAt(t) ==
    /\ running' = FALSE
    /\ pins' = [i \in 1..Len(leds) |-> 0]
    /\ pinWrites' = Len(leds)
    /\ randomCalls' = 0
    /\ now' = t
    /\ UNCHANGED << startTimeMs, info, lastRevolution, leds, settings >>

\* void poll(), called while the model follows the clock
PollIf(followed) ==
    /\ pc = "run"
    /\ followed
    /\ PollFrom(running, startTimeMs, now)
    /\ lastOp' = "poll"
    /\ lastArg' = 0
    /\ ret' = FALSE
    /\ wrote' = FALSE
    /\ UNCHANGED << pc, nv, revTimePeriodMs, running, startTimeMs >>
    /\ UNCHANGED sketchState

StartUp ==
    /\ pc = "run"
    /\ now + PollDelayMs <= MaxNow
    /\ StartUpAt(now)
    /\ lastOp' = "startUp"
    /\ lastArg' = 0
    /\ ret' = FALSE
    /\ wrote' = FALSE
    /\ UNCHANGED << pc, nv, revTimePeriodMs >>
    /\ UNCHANGED sketchState

Shutdown ==
    /\ pc = "run"
    /\ ShutdownAt(now)
    /\ lastOp' = "shutdown"
    /\ lastArg' = 0
    /\ ret' = FALSE
    /\ wrote' = FALSE
    /\ UNCHANGED << pc, nv, revTimePeriodMs >>
    /\ UNCHANGED sketchState

\* time passes between two calls: millis() moves on by d
TickIf(d, followed) ==
    /\ pc = "run"
    /\ followed
    /\ now' = MillisAfter(now, d)
    /\ lastOp' = "idle"
    /\ lastArg' = 0
    /\ ret' = FALSE
    /\ wrote' = FALSE
    /\ pinWrites' = 0
    /\ randomCalls' = 0
    /\ UNCHANGED << pc, nv, settings, revTimePeriodMs, running, startTimeMs,
                    lastRevolution, leds, pins, info >>
    /\ UNCHANGED sketchState

\* the two over the engine's first MaxNow ms
Poll == PollIf(now + PollDelayMs <= MaxNow)

Tick(d) == TickIf(d, now + d <= MaxNow)

----------------------------------------------------------------------------
(* The sketch: loop() and the setting button                               *)

\* static void setMode(const int newMode), called at time t
SetModeAt(newMode, t) ==
    /\ mode' = newMode
    /\ modeLED' = BoolToInt(Pattern = newMode)
    /\ brightnessLED' = BoolToInt(Brightness = newMode)
    /\ speedLED' = BoolToInt(Speed = newMode)
    /\ lastModeChange' = t

\* the mode settingBtnToggled moves to on a press
NextSettingMode_OneRound(current) ==
    CASE current = Pattern -> Brightness
      [] current = Brightness -> Speed
      [] current = Speed -> Running
      [] current = Running -> Pattern
      [] OTHER -> current

NextSettingMode(current) ==
    CASE current = Pattern -> Brightness
      [] current = Brightness -> Speed
      [] current = Speed -> Pattern
      [] current = Running -> Pattern
      [] OTHER -> current

\* static void settingBtnToggled(const int, const int state, const long),
\* called at time t; the cluster's pins are not touched
SettingBtnToggledAt(state, t) ==
    /\ IF state # 0 /\ pc = "run" /\ mode \in {Pattern, Brightness, Speed, Running}
       THEN SetModeAt(NextSettingMode(mode), t)
       ELSE UNCHANGED << mode, lastModeChange, indicatorLeds >>
    /\ now' = t
    /\ pinWrites' = 0
    /\ randomCalls' = 0
    /\ lastOp' = "idle"
    /\ UNCHANGED << running, startTimeMs, info, lastRevolution, leds, pins,
                    settings >>

\* the mode powerTimeout moves to
PowerTimeoutMode_WakeOnly(current) ==
    IF current = Running THEN Sleep ELSE current

PowerTimeoutMode(current) ==
    CASE current = Sleep -> Running
      [] current = Running -> Sleep
      [] OTHER -> current

\* static void powerTimeout(const int, const long), called at time t
PowerTimeoutAt(t) ==
    /\ UNCHANGED << lastModeChange, indicatorLeds >>
    /\ IF pc = "run" /\ mode = Sleep
       THEN /\ mode' = PowerTimeoutMode(mode)
            /\ StartUpAt(t)
            /\ lastOp' = "startUp"
       ELSE IF pc = "run" /\ mode = Running
            THEN /\ mode' = PowerTimeoutMode(mode)
                 /\ ShutdownAt(t)
                 /\ lastOp' = "shutdown"
            ELSE /\ now' = t
                 /\ pinWrites' = 0
                 /\ randomCalls' = 0
                 /\ lastOp' = "idle"
                 /\ UNCHANGED << mode, running, startTimeMs, info,
                                 lastRevolution, leds, pins, settings >>

\* pollSerial() with nothing to read, then upBtn.poll() and downBtn.poll()
\* with both buttons up and left alone: two debounce delays
IdleButtonsPollUntil(limit) ==
    /\ pc = "run"
    /\ loopStep = "buttons"
    /\ upBtn = 0
    /\ downBtn = 0
    /\ now + 2 * ButtonDelayMs <= limit
    /\ now' = now + 2 * ButtonDelayMs
    /\ loopStep' = "setting"
    /\ lastOp' = "idle"
    /\ lastArg' = 0
    /\ ret' = FALSE
    /\ wrote' = FALSE
    /\ pinWrites' = 0
    /\ randomCalls' = 0
    /\ UNCHANGED << pc, nv, settings, revTimePeriodMs, running, startTimeMs,
                    lastRevolution, leds, pins, info >>
    /\ UNCHANGED << mode, settingBtn, settingPin, lastModeChange, modeAtPress,
                    indicatorLeds, upBtn, downBtn, settingTrace >>

\* no settingSelectionBtn.poll() made yet
NoTrace ==
    [a |-> 0, b |-> 0, fired |-> "none", state |-> 0, duration |-> 0,
     toggled |-> -1, timeouts |-> 0]

\* if (a == b): whether the two reads of a poll count as one level
ReadsAgree_Always(a, b) == TRUE

ReadsAgree(a, b) == a = b

\* trigger_timeout && lastState && (duration >= timeout_duration_ms)
TimeoutDue_Unarmed(armed, state, duration, limit) ==
    state # 0 /\ duration >= limit

TimeoutDue(armed, state, duration, limit) ==
    armed /\ state # 0 /\ duration >= limit

\* void InputHelper::poll() of the helper btn, entered at currentTimeMs with
\* the reads a and b: the callback it makes, with the state and duration it
\* hands over, and the fields it leaves behind
InputHelperPoll(btn, a, b, currentTimeMs, limit) ==
    LET duration == currentTimeMs - btn.lastChangeMs
    IN IF ReadsAgree(a, b) /\ a # btn.lastState
       THEN [fired |-> "toggle", state |-> a, duration |-> duration,
             btn |-> [lastState |-> a,
                      lastChangeMs |-> currentTimeMs,
                      trigger_timeout |->
                          IF a # 0 THEN TRUE ELSE btn.trigger_timeout]]
       ELSE IF /\ ReadsAgree(a, b)
               /\ TimeoutDue(btn.trigger_timeout, btn.lastState, duration, limit)
            THEN [fired |-> "timeout", state |-> btn.lastState,
                  duration |-> duration,
                  btn |-> [btn EXCEPT !.trigger_timeout = FALSE]]
            ELSE [fired |-> "none", state |-> btn.lastState, duration |-> 0,
                  btn |-> btn]

\* the record of the setting button's polls after one that read a and b and
\* came out as r
TraceAfter(trace, a, b, r) ==
    [a |-> a, b |-> b, fired |-> r.fired, state |-> r.state,
     duration |-> r.duration,
     toggled |-> IF r.fired = "toggle" THEN r.state ELSE trace.toggled,
     timeouts |-> CASE r.fired = "toggle" -> 0
                    [] r.fired = "timeout" -> trace.timeouts + 1
                    [] OTHER -> trace.timeouts]

\* settingSelectionBtn.poll(): InputHelper::poll reads the pin as a, waits
\* ButtonDelayMs, reads it again as b, and calls back
SettingBtnReadsUntil(a, b, limit) ==
    /\ pc = "run"
    /\ loopStep = "setting"
    /\ now + ButtonDelayMs <= limit
    /\ LET r == InputHelperPoll(settingBtn, a, b, now, PowerTimeoutMs)
           t == now + ButtonDelayMs
       IN /\ settingPin' = b
          /\ settingBtn' = r.btn
          /\ settingTrace' = TraceAfter(settingTrace, a, b, r)
          /\ IF r.fired = "toggle"
             THEN /\ SettingBtnToggledAt(r.state, t)
                  /\ modeAtPress' = IF r.state # 0 THEN mode ELSE modeAtPress
             ELSE IF r.fired = "timeout"
                  THEN /\ PowerTimeoutAt(t)
                       /\ UNCHANGED modeAtPress
                  ELSE /\ now' = t
                       /\ pinWrites' = 0
                       /\ randomCalls' = 0
                       /\ lastOp' = "idle"
                       /\ UNCHANGED << mode, lastModeChange, modeAtPress,
                                       running, startTimeMs, info,
                                       lastRevolution, leds, pins, settings,
                                       indicatorLeds >>
    /\ loopStep' = "cluster"
    /\ lastArg' = 0
    /\ ret' = FALSE
    /\ wrote' = FALSE
    /\ UNCHANGED << pc, nv, revTimePeriodMs, upBtn, downBtn >>

\* the same poll when the pin keeps, up to the first read, the level the
\* poll before it read last
SettingBtnPollUntil(b, limit) == SettingBtnReadsUntil(settingPin, b, limit)

\* cluster->updatePattern(value), updateBrightness(value) or
\* updateSpeed(value), by the setting mode toggleClusterValue finds
UpdateClusterFor(setting, value) ==
    IF setting = Pattern
    THEN SetPatternBody(UpdatePatternValue(nv.pattern, value),
                        "updatePattern", value)
    ELSE IF setting = Brightness
         THEN SetBrightnessBody(
                  UpdateBrightnessValue(nv.brightnessMultiplier, value),
                  "updateBrightness", value)
         ELSE SetSpeedBody(UpdateSpeedValue(nv.revsPerMinute, value),
                           "updateSpeed", value)

\* the modes toggleClusterValue has a case for
TogglesIn_Any(current) == current \in {Running, Pattern, Brightness, Speed}

TogglesIn(current) == current \in {Pattern, Brightness, Speed}

\* a callback that returns at once at time t
CallbackIdleAt(t) ==
    /\ now' = t
    /\ lastOp' = "idle"
    /\ lastArg' = 0
    /\ ret' = FALSE
    /\ wrote' = FALSE
    /\ UNCHANGED << nv, settings, revTimePeriodMs, lastModeChange,
                    indicatorLeds >>

\* the level toggleClusterValue leaves on the indicator it blinked:
\* modeLED = HIGH after the delay
BlinkLevel_Low == BoolToInt(FALSE)

BlinkLevel == BoolToInt(TRUE)

\* static void toggleClusterValue(const int value), called at time t: the
\* setting of the mode is stepped, and the mode's indicator blinks off for
\* BlinkMs when the step changed it
ToggleClusterValueAt(value, t) ==
    IF TogglesIn(mode)
    THEN /\ lastModeChange' = t
         /\ UpdateClusterFor(mode, value)
         /\ now' = IF ret' THEN t + BlinkMs ELSE t
         /\ modeLED' = IF ret' /\ mode = Pattern THEN BlinkLevel ELSE modeLED
         /\ brightnessLED' =
                IF ret' /\ mode = Brightness THEN BlinkLevel ELSE brightnessLED
         /\ speedLED' = IF ret' /\ mode = Speed THEN BlinkLevel ELSE speedLED
    ELSE CallbackIdleAt(t)

\* an InputHelper that has no timeout callback, by its lastState: the other
\* two fields as its constructor sets them at time 0
Untimed(state) ==
    [lastState |-> state, lastChangeMs |-> 0, trigger_timeout |-> TRUE]

\* upBtn.poll() with the reads a and b: upBtnToggled steps the setting up on
\* a press
UpBtnPollUntil(a, b, limit) ==
    /\ pc = "run"
    /\ loopStep = "up"
    /\ now + ButtonDelayMs + BlinkMs <= limit
    /\ LET r == InputHelperPoll(Untimed(upBtn), a, b, now, DefaultTimeoutMs)
       IN /\ upBtn' = r.btn.lastState
          /\ IF r.fired = "toggle" /\ r.state # 0
             THEN ToggleClusterValueAt(1, now + ButtonDelayMs)
             ELSE CallbackIdleAt(now + ButtonDelayMs)
    /\ loopStep' = "down"
    /\ pinWrites' = 0
    /\ randomCalls' = 0
    /\ UNCHANGED << pc, mode, running, startTimeMs, lastRevolution, leds, pins,
                    info, settingBtn, settingPin, modeAtPress, downBtn,
                    settingTrace >>

\* downBtn.poll() with the reads a and b: downBtnToggled steps the setting
\* down on a press
DownBtnPollUntil(a, b, limit) ==
    /\ pc = "run"
    /\ loopStep = "down"
    /\ now + ButtonDelayMs + BlinkMs <= limit
    /\ LET r == InputHelperPoll(Untimed(downBtn), a, b, now, DefaultTimeoutMs)
       IN /\ downBtn' = r.btn.lastState
          /\ IF r.fired = "toggle" /\ r.state # 0
             THEN ToggleClusterValueAt(-1, now + ButtonDelayMs)
             ELSE CallbackIdleAt(now + ButtonDelayMs)
    /\ loopStep' = "setting"
    /\ pinWrites' = 0
    /\ randomCalls' = 0
    /\ UNCHANGED << pc, mode, running, startTimeMs, lastRevolution, leds, pins,
                    info, settingBtn, settingPin, modeAtPress, upBtn,
                    settingTrace >>

\* the setting mode a command letter stands for
SettingOf(letter) ==
    CASE letter = "P" -> Pattern
      [] letter = "B" -> Brightness
      [] OTHER -> Speed

\* the mode handleSerialCommand leaves after a single-letter step command:
\* setMode(currentMode)
ModeAfterStep_Kept(setting, currentMode) == setting

ModeAfterStep(setting, currentMode) == currentMode

\* a single letter P, S or B at time t: setMode(setting),
\* toggleClusterValue(inc ? 1 : -1), setMode(currentMode)
SerialStepAt(setting, value, t) ==
    /\ UpdateClusterFor(setting, value)
    /\ now' = IF ret' THEN t + BlinkMs ELSE t
    /\ SetModeAt(ModeAfterStep(setting, mode), IF ret' THEN t + BlinkMs ELSE t)
    /\ pinWrites' = 0
    /\ randomCalls' = 0
    /\ UNCHANGED << running, startTimeMs, lastRevolution, leds, pins, info >>

\* a letter P, S or B followed by a value, at time t: setPattern(newValue),
\* setSpeedPercent(newValue) or setBrightnessPercent(newValue)
SerialSetAt(setting, value, t) ==
    /\ IF setting = Pattern
       THEN SetPatternBody(value, "setPattern", value)
       ELSE IF setting = Brightness
            THEN \E v \in BrightnessFromPercentOutcomes(value) :
                     SetBrightnessBody(v, "setBrightnessPercent", value)
            ELSE \E v \in SpeedFromPercentOutcomes(value) :
                     SetSpeedBody(v, "setSpeedPercent", value)
    /\ now' = t
    /\ pinWrites' = 0
    /\ randomCalls' = 0
    /\ UNCHANGED << mode, lastModeChange, indicatorLeds, running, startTimeMs,
                    lastRevolution, leds, pins, info >>

\* the letter R at time t: setMode(Running), cluster->startUp()
SerialRunAt(t) ==
    /\ SetModeAt(Running, t)
    /\ StartUpAt(t)
    /\ lastOp' = "startUp"
    /\ lastArg' = 0
    /\ ret' = FALSE
    /\ wrote' = FALSE
    /\ UNCHANGED << nv, revTimePeriodMs >>

\* the letter X at time t: setMode(Sleep), cluster->shutdown()
SerialSleepAt(t) ==
    /\ SetModeAt(Sleep, t)
    /\ ShutdownAt(t)
    /\ lastOp' = "shutdown"
    /\ lastArg' = 0
    /\ ret' = FALSE
    /\ wrote' = FALSE
    /\ UNCHANGED << nv, revTimePeriodMs >>

\* nothing on the serial line
NoCommand == [letter |-> "", inc |-> TRUE, value |-> -1]

\* pollSerial(): handleSerialCommand on the command read, if any. The letter
\* is command[0] in upper case, inc tells whether it came in upper case, and
\* value is what getIncomingValue makes of the rest, -1 when there is no rest
PollSerialUntil(cmd, limit) ==
    /\ pc = "run"
    /\ loopStep = "buttons"
    /\ now + BlinkMs <= limit
    /\ IF cmd.letter \in {"P", "S", "B"}
       THEN IF cmd.value = -1
            THEN SerialStepAt(SettingOf(cmd.letter),
                              IF cmd.inc THEN 1 ELSE -1, now)
            ELSE SerialSetAt(SettingOf(cmd.letter), cmd.value, now)
       ELSE IF cmd.letter = "R"
            THEN SerialRunAt(now)
            ELSE IF cmd.letter = "X"
                 THEN SerialSleepAt(now)
                 ELSE /\ CallbackIdleAt(now)
                      /\ pinWrites' = 0
                      /\ randomCalls' = 0
                      /\ UNCHANGED << mode, running, startTimeMs,
                                      lastRevolution, leds, pins, info >>
    /\ loopStep' = "up"
    /\ UNCHANGED << pc, settingBtn, settingPin, modeAtPress, upBtn, downBtn,
                    settingTrace >>

\* cluster->poll() as loop() calls it
ClusterPollUntil(limit) ==
    /\ pc = "run"
    /\ loopStep = "cluster"
    /\ now + PollDelayMs <= limit
    /\ PollFrom(running, startTimeMs, now)
    /\ loopStep' = "inactivity"
    /\ lastOp' = "poll"
    /\ lastArg' = 0
    /\ ret' = FALSE
    /\ wrote' = FALSE
    /\ UNCHANGED << pc, nv, revTimePeriodMs, running, startTimeMs >>
    /\ UNCHANGED << mode, settingBtn, settingPin, lastModeChange, modeAtPress,
                    indicatorLeds, upBtn, downBtn, settingTrace >>

\* the three calls over the first MaxUptime ms of uptime
IdleButtonsPoll == IdleButtonsPollUntil(MaxUptime)

SettingBtnPoll(b) == SettingBtnPollUntil(b, MaxUptime)

ClusterPoll == ClusterPollUntil(MaxUptime)

\* whether loop() finds a setting mode left alone for too long:
\* if (delta > 10000)
InactivityElapsed_Doubled(delta) == delta > 2 * InactivityMs

InactivityElapsed(delta) == delta > InactivityMs

\* the end of loop(): a setting mode left alone for more than InactivityMs
\* falls back to Running
InactivityCheck ==
    /\ pc = "run"
    /\ loopStep = "inactivity"
    /\ IF mode # Running /\ mode # Sleep /\ InactivityElapsed(now - lastModeChange)
       THEN /\ mode' = Running
            /\ modeLED' = 0
            /\ brightnessLED' = 0
            /\ speedLED' = 0
            /\ lastModeChange' = 0
       ELSE UNCHANGED << mode, lastModeChange, indicatorLeds >>
    /\ loopStep' = "buttons"
    /\ lastOp' = "idle"
    /\ lastArg' = 0
    /\ ret' = FALSE
    /\ wrote' = FALSE
    /\ pinWrites' = 0
    /\ randomCalls' = 0
    /\ UNCHANGED << pc, nv, settings, revTimePeriodMs >>
    /\ UNCHANGED ledState
    /\ UNCHANGED << settingBtn, settingPin, modeAtPress, upBtn, downBtn,
                    settingTrace >>

----------------------------------------------------------------------------
(* Specifications                                                          *)

\* the sketch's globals as their initialisers leave them, the setting
\* button up
SketchAtBoot ==
    /\ mode = Running
    /\ settingBtn = [lastState |-> 0, lastChangeMs |-> 0, trigger_timeout |-> TRUE]
    /\ settingPin = 0
    /\ lastModeChange = 0
    /\ modeAtPress = Running
    /\ upBtn = 0
    /\ downBtn = 0
    /\ settingTrace = NoTrace
    /\ loopStep = "buttons"
    /\ modeLED = 0
    /\ speedLED = 0
    /\ brightnessLED = 0

\* the LedInfo array LedCluster::LedCluster leaves behind
BuiltLeds(count, draws) ==
    { [i \in 1..count |->
          [angle |-> LedAngle(count, i - 1), brightness |-> 0, extra |-> drops[i]]] :
      drops \in [1..count -> draws] }

\* an engine of count LEDs built at time start over the valid record s,
\* populateRaindrops having drawn from draws
Built(count, s, start, draws) ==
    /\ pc = "run"
    /\ nv = s
    /\ settings = s
    /\ revTimePeriodMs = PeriodOf(s.revsPerMinute)
    /\ running = TRUE
    /\ startTimeMs = start
    /\ lastRevolution = 0
    /\ leds \in BuiltLeds(count, draws)
    /\ pins = [i \in 1..count |-> 0]
    /\ info = [num |-> 0, den |-> 1, revolution |-> 0]
    /\ pinWrites = 0
    /\ randomCalls = count
    /\ lastOp = "construct"
    /\ lastArg = 0
    /\ ret = FALSE
    /\ wrote = FALSE

\* power-up over any EEPROM contents, then any sequence of mutator calls;
\* the mutators never look at the LED array, and the engine is built over
\* an empty one
Init ==
    /\ pc = "boot"
    /\ nv \in BootRecords
    /\ settings = BlankRecord
    /\ revTimePeriodMs = 0
    /\ lastOp = "none"
    /\ lastArg = 0
    /\ ret = FALSE
    /\ wrote = FALSE
    /\ running = FALSE
    /\ now = 0
    /\ startTimeMs = 0
    /\ lastRevolution = 0
    /\ leds = << >>
    /\ pins = << >>
    /\ info = [num |-> 0, den |-> 1, revolution |-> 0]
    /\ pinWrites = 0
    /\ randomCalls = 0
    /\ SketchAtBoot

Next ==
    \/ Construct(0)
    \/ \E v \in PatternArgs : SetPattern(v)
    \/ \E d \in PatternDeltas : UpdatePattern(d)
    \/ \E p \in Percents : SetBrightnessPercent(p)
    \/ \E d \in Deltas : UpdateBrightness(d)
    \/ \E p \in Percents : SetSpeedPercent(p)
    \/ \E d \in Deltas : UpdateSpeed(d)

Spec == Init /\ [][Next]_vars

\* the engine as constructed over unwritten EEPROM
InitDefaulted ==
    /\ pc = "run"
    /\ nv = DefaultSettings
    /\ settings = DefaultSettings
    /\ revTimePeriodMs = PeriodOf(DEFAULT_SPEED)
    /\ lastOp = "construct"
    /\ lastArg = 0
    /\ ret = FALSE
    /\ wrote = TRUE
    /\ running = TRUE
    /\ now = 0
    /\ startTimeMs = 0
    /\ lastRevolution = 0
    /\ leds = << >>
    /\ pins = << >>
    /\ info = [num |-> 0, den |-> 1, revolution |-> 0]
    /\ pinWrites = 0
    /\ randomCalls = 0
    /\ SketchAtBoot

\* sweep of setBrightnessPercent over every whole percentage
NextBrightnessPercent ==
    \/ \E p \in SweepPercents : SetBrightnessPercent(p)
    \/ \E d \in {-1, 1} : UpdateBrightness(d)

SpecBrightnessPercent == InitDefaulted /\ [][NextBrightnessPercent]_vars

\* sweep of setSpeedPercent over every whole percentage
NextSpeedPercent ==
    \/ \E p \in SweepPercents : SetSpeedPercent(p)
    \/ \E d \in {-1, 1} : UpdateSpeed(d)

SpecSpeedPercent == InitDefaulted /\ [][NextSpeedPercent]_vars

\* sweep of global scaling over every raw brightness and every multiplier
NextScale ==
    \/ \E d \in {-1, 1} : UpdateBrightness(d)
    \/ \E b \in RawLevels : Globalise(b)

SpecScale == InitDefaulted /\ [][NextScale]_vars

\* an engine of LifecycleLeds LEDs, built at time 0 over the defaults at top
\* speed and left alone for EngineAge ms, then polled, stopped, started and
\* switched from pattern to pattern in any order
InitLifecycle ==
    /\ now = EngineAge
    /\ Built(LifecycleLeds, [DefaultSettings EXCEPT !.revsPerMinute = MAX_SPEED], 0,
             RaindropDraws)
    /\ SketchAtBoot

NextLifecycle ==
    \/ Poll
    \/ StartUp
    \/ Shutdown
    \/ Tick(TickMs)
    \/ \E d \in PatternDeltas : UpdatePattern(d)

SpecLifecycle == InitLifecycle /\ [][NextLifecycle]_vars

\* a running engine showing JustOn, built at one of ClockStarts at the lowest,
\* the default or the highest speed, polled while time passes and the speed
\* is stepped or set
InitClock ==
    /\ now = EngineAge
    /\ \E start \in ClockStarts, rpm \in {MIN_SPEED, DEFAULT_SPEED, MAX_SPEED} :
           Built(ClockLeds,
                 [DefaultSettings EXCEPT !.pattern = JustOn, !.revsPerMinute = rpm],
                 start, RaindropDraws)
    /\ SketchAtBoot

NextClock ==
    \/ Poll
    \/ Tick(TickMs)
    \/ \E d \in PatternDeltas : UpdateSpeed(d)
    \/ \E p \in ClockPercents : SetSpeedPercent(p)

SpecClock == InitClock /\ [][NextClock]_vars

\* the selectors setPattern is given while the engine of SpecStray runs: a
\* known pattern and two values past the last one
StrayPatterns == {ChaseClockwise, PATTERN_COUNT, IntMax}

\* the engine of SpecLifecycle, polled while time passes and setPattern is
\* called with a selector of StrayPatterns
NextStray ==
    \/ Poll
    \/ Tick(TickMs)
    \/ \E v \in StrayPatterns : SetPattern(v)

SpecStray == InitLifecycle /\ [][NextStray]_vars

\* an engine of LifecycleLeds LEDs showing Flames or Static at the default or
\* at full brightness, its scratch values as populateRaindrops() left them
InitFlames ==
    /\ now = EngineAge
    /\ \E pattern \in {Flames, Static},
          mult \in {DEFAULT_BRIGHTNESS, MAX_BRIGHTNESS} :
           Built(LifecycleLeds,
                 [DefaultSettings EXCEPT !.pattern = pattern,
                                         !.brightnessMultiplier = mult,
                                         !.revsPerMinute = MAX_SPEED],
                 0, RaindropDraws)
    /\ SketchAtBoot

NextFlames ==
    \/ Poll
    \/ Tick(TickMs)

SpecFlames == InitFlames /\ [][NextFlames]_vars

\* the clock is followed across the end of the positive longs
NearWrap == now >= LongMax - WrapLead \/ now <= LongMin + WrapSpan

\* an engine of ClockLeds LEDs showing JustOn at the lowest, the default or
\* the highest speed, built within the first WrapStartSpan ms of uptime and
\* polled since, last PollDelayMs ago; millis() is WrapLead ms short of
\* LongMax, some 24.8 days after power-up
InitWrap ==
    \E start \in 0..WrapStartSpan, rpm \in {MIN_SPEED, DEFAULT_SPEED, MAX_SPEED} :
        LET record == [DefaultSettings EXCEPT !.pattern = JustOn,
                                              !.revsPerMinute = rpm]
            smp == GetCurrentLightInfo((LongMax - WrapLead) - PollDelayMs, start,
                                       PeriodOf(rpm))
            level == GlobaliseBrightness(record.brightnessMultiplier, 100)
        IN /\ now = LongMax - WrapLead
           /\ pc = "run"
           /\ nv = record
           /\ settings = record
           /\ revTimePeriodMs = PeriodOf(rpm)
           /\ running = TRUE
           /\ startTimeMs = start
           /\ lastRevolution = smp.revolution
           /\ leds = [i \in 1..ClockLeds |->
                         [angle |-> LedAngle(ClockLeds, i - 1),
                          brightness |-> level, extra |-> 0]]
           /\ pins = [i \in 1..ClockLeds |-> BrightnessToDutyCycle(level)]
           /\ info = smp
           /\ pinWrites = ClockLeds
           /\ randomCalls = 0
           /\ lastOp = "poll"
           /\ lastArg = 0
           /\ ret = FALSE
           /\ wrote = FALSE
           /\ SketchAtBoot

NextWrap ==
    \/ PollIf(NearWrap)
    \/ TickIf(TickMs, NearWrap)

SpecWrap == InitWrap /\ [][NextWrap]_vars

\* the patterns that never consult random()
SteadyPatterns == JustOn..Heartbeat

\* the sketch's six LEDs at the highest speed showing a steady pattern at full
\* or default brightness, built at any ms of the last SweepWindow ms, so that
\* the polls meet every phase of the revolution
InitPatterns ==
    /\ now = EngineAge
    /\ \E start \in (EngineAge - SweepWindow + 1)..EngineAge,
          pattern \in SteadyPatterns,
          mult \in {DEFAULT_BRIGHTNESS, MAX_BRIGHTNESS} :
           Built(DisplayLeds,
                 [DefaultSettings EXCEPT !.pattern = pattern,
                                         !.brightnessMultiplier = mult,
                                         !.revsPerMinute = MAX_SPEED],
                 start, {0})
    /\ SketchAtBoot

NextPatterns == Poll

SpecPatterns == InitPatterns /\ [][NextPatterns]_vars

\* an engine of LifecycleLeds LEDs showing Raindrop at full brightness, built
\* at any ms of the last SweepWindow ms
InitRaindrop ==
    /\ now = EngineAge
    /\ \E start \in (EngineAge - SweepWindow + 1)..EngineAge,
          rpm \in RaindropSpeeds :
           Built(LifecycleLeds,
                 [DefaultSettings EXCEPT !.pattern = Raindrop,
                                         !.brightnessMultiplier = MAX_BRIGHTNESS,
                                         !.revsPerMinute = rpm],
                 start, RaindropDraws)
    /\ SketchAtBoot

NextRaindrop == Poll

SpecRaindrop == InitRaindrop /\ [][NextRaindrop]_vars

\* sweep of the duty cycle conversion over brightnesses in and out of range
NextDuty == \E b \in DutyInputs : DutyCycle(b)

SpecDuty == InitDefaulted /\ [][NextDuty]_vars

\* the sketch after setup(): the cluster of six LEDs built at time 0 over the
\* defaults showing JustOn, the setting button up or held down; loop() then
\* runs with the up and down buttons and the serial line left alone
InitSketch ==
    /\ now = 0
    /\ Built(DisplayLeds, [DefaultSettings EXCEPT !.pattern = JustOn], 0, {0})
    /\ mode = Running
    /\ settingPin \in {0, 1}
    /\ settingBtn = [lastState |-> settingPin, lastChangeMs |-> 0,
                     trigger_timeout |-> TRUE]
    /\ lastModeChange = 0
    /\ modeAtPress = Running
    /\ upBtn = 0
    /\ downBtn = 0
    /\ settingTrace = NoTrace
    /\ loopStep = "buttons"
    /\ modeLED = 0
    /\ speedLED = 0
    /\ brightnessLED = 0

NextSketch ==
    \/ IdleButtonsPoll
    \/ \E b \in {0, 1} : SettingBtnPoll(b)
    \/ ClusterPoll
    \/ InactivityCheck

SpecSketch == InitSketch /\ [][NextSketch]_vars

\* the sketch put to sleep by the serial command X in the first pass of
\* loop(), before the cluster was ever polled: setMode(Sleep) and shutdown()
\* have run, then the up and down buttons were polled; the setting button is
\* up and is then pressed, held and released in any way
InitAsleep ==
    /\ now = 2 * ButtonDelayMs
    /\ pc = "run"
    /\ nv = [DefaultSettings EXCEPT !.pattern = JustOn]
    /\ settings = nv
    /\ revTimePeriodMs = PeriodOf(nv.revsPerMinute)
    /\ running = FALSE
    /\ startTimeMs = 0
    /\ lastRevolution = 0
    /\ leds \in BuiltLeds(DisplayLeds, {0})
    /\ pins = [i \in 1..DisplayLeds |-> 0]
    /\ info = [num |-> 0, den |-> 1, revolution |-> 0]
    /\ pinWrites = 0
    /\ randomCalls = 0
    /\ lastOp = "idle"
    /\ lastArg = 0
    /\ ret = FALSE
    /\ wrote = FALSE
    /\ mode = Sleep
    /\ settingBtn = [lastState |-> 0, lastChangeMs |-> 0, trigger_timeout |-> TRUE]
    /\ settingPin = 0
    /\ lastModeChange = 0
    /\ modeAtPress = Sleep
    /\ upBtn = 0
    /\ downBtn = 0
    /\ settingTrace = NoTrace
    /\ loopStep = "setting"
    /\ modeLED = 0
    /\ speedLED = 0
    /\ brightnessLED = 0

SpecWake == InitAsleep /\ [][NextSketch]_vars

\* the first PressUptime ms of a stand that runs or was put to sleep, the
\* setting button pressed and released in any way
InitPresses ==
    \/ InitSketch /\ settingPin = 0
    \/ InitAsleep

NextPresses ==
    \/ IdleButtonsPollUntil(PressUptime)
    \/ \E b \in {0, 1} : SettingBtnPollUntil(b, PressUptime)
    \/ ClusterPollUntil(PressUptime)
    \/ InactivityCheck

SpecPresses == InitPresses /\ [][NextPresses]_vars

\* the poll of the setting button, counted from 0, that sees the n-th of a
\* run of presses begun at power-up: the pin is read high twice in the poll
\* after the one in which it rose, and low twice two polls later
PressPass(n) == 4 * n - 3

\* the time one pass of loop() takes: two idle button polls, the setting
\* button poll and the cluster poll
LoopPassMs == 3 * ButtonDelayMs + PollDelayMs

\* a stand taken to a setting mode by one, two or three presses of the
\* setting button right after power-up and left alone until InactivityFrom
InitInactivity ==
    \E n \in 1..3 :
        LET pressed == PressPass(n) * LoopPassMs + 2 * ButtonDelayMs
            released == (PressPass(n) + 2) * LoopPassMs + 2 * ButtonDelayMs
            record == [DefaultSettings EXCEPT !.pattern = JustOn]
            smp == GetCurrentLightInfo(InactivityFrom - PollDelayMs, 0,
                                       PeriodOf(record.revsPerMinute))
            level == GlobaliseBrightness(record.brightnessMultiplier, 100)
        IN /\ now = InactivityFrom
           /\ pc = "run"
           /\ nv = record
           /\ settings = record
           /\ revTimePeriodMs = PeriodOf(record.revsPerMinute)
           /\ running = TRUE
           /\ startTimeMs = 0
           /\ lastRevolution = smp.revolution
           /\ leds = [i \in 1..DisplayLeds |->
                         [angle |-> LedAngle(DisplayLeds, i - 1),
                          brightness |-> level, extra |-> 0]]
           /\ pins = [i \in 1..DisplayLeds |-> BrightnessToDutyCycle(level)]
           /\ info = smp
           /\ pinWrites = 0
           /\ randomCalls = 0
           /\ lastOp = "idle"
           /\ lastArg = 0
           /\ ret = FALSE
           /\ wrote = FALSE
           /\ mode = << Pattern, Brightness, Speed >>[n]
           /\ settingBtn = [lastState |-> 0, lastChangeMs |-> released,
                            trigger_timeout |-> TRUE]
           /\ settingPin = 0
           /\ lastModeChange = pressed + ButtonDelayMs
           /\ modeAtPress = << Running, Pattern, Brightness >>[n]
           /\ upBtn = 0
           /\ downBtn = 0
           /\ settingTrace = NoTrace
           /\ loopStep = "buttons"
           /\ modeLED = BoolToInt(n = 1)
           /\ brightnessLED = BoolToInt(n = 2)
           /\ speedLED = BoolToInt(n = 3)

NextInactivity ==
    \/ IdleButtonsPollUntil(InactivityUntil)
    \/ \E b \in {0, 1} : SettingBtnPollUntil(b, InactivityUntil)
    \/ ClusterPollUntil(InactivityUntil)
    \/ InactivityCheck

SpecInactivity == InitInactivity /\ [][NextInactivity]_vars


\* the stand over its first ValueUptime ms, a cluster of PanelLeds LEDs
\* built over the defaults, or put to sleep in the first pass of loop(); the
\* serial line is left alone, the setting button is pressed and released in
\* any way and the up and down buttons are read in any way
InitValues ==
    \/ /\ now = 0
       /\ Built(PanelLeds, DefaultSettings, 0, {0})
       /\ SketchAtBoot
    \/ InitAsleep

NextValues ==
    \/ PollSerialUntil(NoCommand, ValueUptime)
    \/ \E a \in {0, 1}, b \in {0, 1} : UpBtnPollUntil(a, b, ValueUptime)
    \/ \E a \in {0, 1}, b \in {0, 1} : DownBtnPollUntil(a, b, ValueUptime)
    \/ \E l \in {0, 1} : SettingBtnReadsUntil(l, l, ValueUptime)
    \/ ClusterPollUntil(ValueUptime)
    \/ InactivityCheck

SpecValues == InitValues /\ [][NextValues]_vars

\* the commands tried on the serial line: each letter in either case, alone
\* or, for P, S and B, followed by a value
SerialValues == {5, 50}

SerialCommands ==
    [letter : {"P", "S", "B"}, inc : BOOLEAN, value : {-1} \cup SerialValues]
        \cup [letter : {"R", "X"}, inc : BOOLEAN, value : {-1}]
        \cup {NoCommand}

\* what the polls of a setting button left alone at level since the toggle
\* callback was last handed toggled (-1: never) leave on record
QuietTrace(level, toggled) ==
    [a |-> level, b |-> level, fired |-> "none", state |-> level,
     duration |-> 0, toggled |-> toggled, timeouts |-> 0]

\* a stand at the start of the pass of loop() that begins at t: a cluster of
\* PanelLeds LEDs built at time 0 over a record showing JustOn, polled last
\* PollDelayMs ago if it runs and never if it does not; the sketch in mode m
\* since changed, its setting button as btn
PanelAt(t, m, isRunning, btn, changed, trace) ==
    LET record == [DefaultSettings EXCEPT !.pattern = JustOn]
        smp == GetCurrentLightInfo(t - PollDelayMs, 0,
                                   PeriodOf(record.revsPerMinute))
        level == IF isRunning
                 THEN GlobaliseBrightness(record.brightnessMultiplier, 100)
                 ELSE 0
    IN /\ now = t
       /\ pc = "run"
       /\ nv = record
       /\ settings = record
       /\ revTimePeriodMs = PeriodOf(record.revsPerMinute)
       /\ running = isRunning
       /\ startTimeMs = 0
       /\ lastRevolution = IF isRunning THEN smp.revolution ELSE 0
       /\ leds = [i \in 1..PanelLeds |->
                     [angle |-> LedAngle(PanelLeds, i - 1),
                      brightness |-> level, extra |-> 0]]
       /\ pins = [i \in 1..PanelLeds |-> BrightnessToDutyCycle(level)]
       /\ info = IF isRunning THEN smp
                 ELSE [num |-> 0, den |-> 1, revolution |-> 0]
       /\ pinWrites = 0
       /\ randomCalls = 0
       /\ lastOp = "idle"
       /\ lastArg = 0
       /\ ret = FALSE
       /\ wrote = FALSE
       /\ mode = m
       /\ settingBtn = btn
       /\ settingPin = btn.lastState
       /\ lastModeChange = changed
       /\ upBtn = 0
       /\ downBtn = 0
       /\ settingTrace = trace
       /\ loopStep = "buttons"
       /\ modeLED = BoolToInt(m = Pattern)
       /\ brightnessLED = BoolToInt(m = Brightness)
       /\ speedLED = BoolToInt(m = Speed)

\* the stand right after power-up with the setting button up or held; the
\* same stand PanelHeldFrom ms on, the button held ever since; a stand put to
\* sleep by the command X in its first pass, the setting button pressed in
\* that pass and held until PanelHeldFrom; and a stand whose setting button
\* was pressed up to three times, the last press seen by the ninth pass and
\* the release by the eleventh, and then left alone until PanelIdleFrom
InitPanel ==
    \/ /\ now = 0
       /\ Built(PanelLeds, [DefaultSettings EXCEPT !.pattern = JustOn], 0, {0})
       /\ SketchAtBoot
    \/ /\ PanelAt(PanelHeldFrom, Running, TRUE,
                  [lastState |-> 1, lastChangeMs |-> 0, trigger_timeout |-> TRUE],
                  0, QuietTrace(1, -1))
       /\ modeAtPress = Running
    \/ /\ PanelAt(PanelHeldFrom, Sleep, FALSE,
                  [lastState |-> 1, lastChangeMs |-> 2 * ButtonDelayMs,
                   trigger_timeout |-> TRUE],
                  0, QuietTrace(1, 1))
       /\ modeAtPress = Sleep
    \/ \E n \in 1..3 :
           LET pressed == PressPass(3) * LoopPassMs + 2 * ButtonDelayMs
               released == (PressPass(3) + 2) * LoopPassMs + 2 * ButtonDelayMs
           IN /\ PanelAt(PanelIdleFrom, << Pattern, Brightness, Speed >>[n], TRUE,
                         [lastState |-> 0, lastChangeMs |-> released,
                          trigger_timeout |-> TRUE],
                         pressed + ButtonDelayMs, QuietTrace(0, 0))
              /\ modeAtPress = << Running, Pattern, Brightness >>[n]

\* where the stretch of uptime the stand is in ends
PanelLimit ==
    IF now < PanelHeldFrom THEN PanelSpan
    ELSE IF now < PanelIdleFrom THEN PanelHeldFrom + PanelSpan
         ELSE PanelIdleFrom + PanelSpan

\* loop() with any command on the serial line and each of the three buttons
\* read at either level
NextPanel ==
    \/ \E cmd \in SerialCommands : PollSerialUntil(cmd, PanelLimit)
    \/ \E l \in {0, 1} : UpBtnPollUntil(l, l, PanelLimit)
    \/ \E l \in {0, 1} : DownBtnPollUntil(l, l, PanelLimit)
    \/ \E l \in {0, 1} : SettingBtnReadsUntil(l, l, PanelLimit)
    \/ ClusterPollUntil(PanelLimit)
    \/ InactivityCheck

SpecPanel == InitPanel /\ [][NextPanel]_vars

\* the uptime at which the stand of InitRearmed is picked up
RearmedFrom == PanelHeldFrom + RearmedPasses * LoopPassMs

\* a stand whose setting button was held from power-up: the long press put
\* it to sleep in the pass after PanelHeldFrom, the button was seen up in
\* the next pass and down again in the one after, and has been held since
InitRearmed ==
    LET record == [DefaultSettings EXCEPT !.pattern = JustOn]
        smp == GetCurrentLightInfo(PanelHeldFrom + 3 * ButtonDelayMs, 0,
                                   PeriodOf(record.revsPerMinute))
        level == GlobaliseBrightness(record.brightnessMultiplier, 100)
        pressed == PanelHeldFrom + 3 * LoopPassMs + 2 * ButtonDelayMs
    IN /\ now = RearmedFrom
       /\ pc = "run"
       /\ nv = record
       /\ settings = record
       /\ revTimePeriodMs = PeriodOf(record.revsPerMinute)
       /\ running = FALSE
       /\ startTimeMs = 0
       /\ lastRevolution = smp.revolution
       /\ leds = [i \in 1..PanelLeds |->
                     [angle |-> LedAngle(PanelLeds, i - 1),
                      brightness |-> level, extra |-> 0]]
       /\ pins = [i \in 1..PanelLeds |-> 0]
       /\ info = smp
       /\ pinWrites = 0
       /\ randomCalls = 0
       /\ lastOp = "idle"
       /\ lastArg = 0
       /\ ret = FALSE
       /\ wrote = FALSE
       /\ mode = Sleep
       /\ settingBtn = [lastState |-> 1, lastChangeMs |-> pressed,
                        trigger_timeout |-> TRUE]
       /\ settingPin = 1
       /\ lastModeChange = 0
       /\ modeAtPress = Sleep
       /\ upBtn = 0
       /\ downBtn = 0
       /\ settingTrace = QuietTrace(1, 1)
       /\ loopStep = "buttons"
       /\ modeLED = 0
       /\ speedLED = 0
       /\ brightnessLED = 0

\* the stand right after power-up with the setting button up or held, the
\* same stand PanelHeldFrom ms on with the button held ever since, and the
\* stand of InitRearmed; the serial line and the up and down buttons are
\* left alone and the two reads of the setting button come out in any way
InitButton ==
    \/ /\ now = 0
       /\ Built(PanelLeds, [DefaultSettings EXCEPT !.pattern = JustOn], 0, {0})
       /\ SketchAtBoot
    \/ /\ PanelAt(0, Running, TRUE,
                  [lastState |-> 1, lastChangeMs |-> 0, trigger_timeout |-> TRUE],
                  0, NoTrace)
       /\ modeAtPress = Running
    \/ /\ PanelAt(PanelHeldFrom, Running, TRUE,
                  [lastState |-> 1, lastChangeMs |-> 0, trigger_timeout |-> TRUE],
                  0, QuietTrace(1, -1))
       /\ modeAtPress = Running
    \/ InitRearmed

\* where the stretch of uptime the stand is in ends
ButtonLimit ==
    IF now < PanelHeldFrom THEN PanelSpan
    ELSE IF now < RearmedFrom THEN PanelHeldFrom + PanelSpan
         ELSE RearmedFrom + PanelSpan

NextButton ==
    \/ IdleButtonsPollUntil(ButtonLimit)
    \/ \E a \in {0, 1}, b \in {0, 1} : SettingBtnReadsUntil(a, b, ButtonLimit)
    \/ ClusterPollUntil(ButtonLimit)
    \/ InactivityCheck

SpecButton == InitButton /\ [][NextButton]_vars

----------------------------------------------------------------------------
(* Properties                                                              *)

Mutators ==
    { "setPattern", "updatePattern", "setBrightnessPercent",
      "updateBrightness", "setSpeedPercent", "updateSpeed" }

\* clamp as the properties state it
Clamp(v, lo, hi) == IF v < lo THEN lo ELSE IF v > hi THEN hi ELSE v

Abs(x) == IF x < 0 THEN -x ELSE x

\* the record the documentation promises after a reset
DocumentedDefaults ==
    [ version |-> VERSION, pattern |-> ChaseClockwise,
      brightnessMultiplier |-> 18, revsPerMinute |-> 18, invalid |-> 0 ]

\* C1: construction rewrites the persisted record exactly when the loaded
\* record is flagged invalid or carries another version; the record stored
\* and held in memory is then the documented defaults; otherwise the
\* persisted record is left as it was.
C1_ConstructResetsIffRejected ==
    [][ (pc = "boot" /\ pc' = "run") =>
            /\ wrote' <=> (nv.invalid # 0 \/ nv.version # VERSION)
            /\ wrote' => (nv' = DocumentedDefaults /\ settings' = DocumentedDefaults)
            /\ ~wrote' => (nv' = nv /\ settings' = nv) ]_vars

\* C1 witness: a record of another version with its flag clear was replaced.
C1_Witness ==
    /\ lastOp = "construct"
    /\ wrote
    /\ nv = DocumentedDefaults
    /\ settings = DocumentedDefaults

\* C2: after setPattern(v) the stored pattern is v clamped to
\* [0, PATTERN_COUNT-1].
C2_SetPatternClampsToLastPattern ==
    lastOp = "setPattern" => nv.pattern = Clamp(lastArg, 0, PATTERN_COUNT - 1)

\* the pattern stored by n successive updatePattern(+1) calls starting at p
RECURSIVE StepForward(_, _)
StepForward(p, n) ==
    IF n = 0 THEN p
    ELSE StepForward(SetPatternValue(UpdatePatternValue(p, 1)), n - 1)

\* C3: from any stored pattern, updatePattern(+1) on the last pattern gives
\* the first, updatePattern(-1) on the first gives the last, and
\* PATTERN_COUNT successive updatePattern(+1) return to the starting pattern.
C3_UpdatePatternWraps ==
    pc = "run" =>
        /\ nv.pattern = PATTERN_COUNT - 1 =>
               SetPatternValue(UpdatePatternValue(nv.pattern, 1)) = 0
        /\ nv.pattern = 0 =>
               SetPatternValue(UpdatePatternValue(nv.pattern, -1)) = PATTERN_COUNT - 1
        /\ StepForward(nv.pattern, PATTERN_COUNT) = nv.pattern

\* C4: every settings mutator returns the applied value: the applied pattern
\* index, or the applied percentage.
C4_MutatorsReturnAppliedValue ==
    /\ lastOp \in {"setPattern", "updatePattern"} =>
           BoolToInt(ret) = nv.pattern
    /\ lastOp \in {"setBrightnessPercent", "updateBrightness"} =>
           BoolToInt(ret) = BrightnessPercentOf(nv.brightnessMultiplier)
    /\ lastOp \in {"setSpeedPercent", "updateSpeed"} =>
           BoolToInt(ret) = SpeedPercentOf(nv.revsPerMinute)

\* C5: a settings mutator writes the persisted record exactly when the value
\* it applies differs from the persisted one, returns true exactly then, and
\* otherwise leaves the persisted record as it was.
C5_WriteIffValueChanges ==
    [][ lastOp' \in Mutators =>
            /\ wrote' <=> (nv' # nv)
            /\ ret' <=> wrote'
            /\ ~wrote' => nv' = nv ]_vars

\* C5 witness: setSpeedPercent asked for the speed already stored; nothing
\* was written and false came back.
C5_Witness ==
    /\ lastOp = "setSpeedPercent"
    /\ lastArg = 100
    /\ nv.revsPerMinute = MAX_SPEED
    /\ ~wrote
    /\ ret = FALSE

\* C6: once constructed, whatever brightness and speed mutators ran with
\* whatever arguments, the persisted multiplier is in [1,20] and the
\* persisted speed in [6,60]; an increase that changes nothing found the
\* value at its maximum, a decrease that changes nothing at its minimum.
C6_LevelsStayInRange ==
    pc = "run" =>
        /\ nv.brightnessMultiplier \in 1..20
        /\ nv.revsPerMinute \in 6..60
        /\ (lastOp = "updateBrightness" /\ lastArg > 0 /\ ~wrote) =>
               nv.brightnessMultiplier = 20
        /\ (lastOp = "updateBrightness" /\ lastArg < 0 /\ ~wrote) =>
               nv.brightnessMultiplier = 1
        /\ (lastOp = "updateSpeed" /\ lastArg > 0 /\ ~wrote) =>
               nv.revsPerMinute = 60
        /\ (lastOp = "updateSpeed" /\ lastArg < 0 /\ ~wrote) =>
               nv.revsPerMinute = 6

\* C6 witness: a decrease of the speed stopped at 6 rpm.
C6_Witness ==
    /\ lastOp = "updateSpeed"
    /\ lastArg < 0
    /\ ~wrote
    /\ nv.revsPerMinute = 6

\* C7: updateBrightness(d) stores clamp(multiplier + d, 1, 20) and
\* updateSpeed(d) stores clamp(speed + 3*d, 6, 60), both taken from the
\* record persisted when the call starts.
C7_RelativeStepIsClamped ==
    [][ /\ lastOp' = "updateBrightness" =>
               nv'.brightnessMultiplier =
                   Clamp(nv.brightnessMultiplier + lastArg', 1, 20)
        /\ lastOp' = "updateSpeed" =>
               nv'.revsPerMinute = Clamp(nv.revsPerMinute + 3 * lastArg', 6, 60)
      ]_vars

\* C7 witness: one step up moved the default speed from 18 to 21 rpm.
C7_Witness ==
    /\ lastOp = "updateSpeed"
    /\ lastArg = 1
    /\ wrote
    /\ nv.revsPerMinute = 21

\* C8 as claimed: for every percent in [0,100] setSpeedPercent applies the
\* affine interpolation 6 + 54*percent/100, to integer rounding: 6 rpm at
\* 0%, 60 rpm at 100%, 33 rpm at 50%.
C8_SpeedPercentIsAffine ==
    (lastOp = "setSpeedPercent" /\ lastArg \in 0..100) =>
        /\ Abs(100 * (nv.revsPerMinute - 6) - 54 * lastArg) < 100
        /\ lastArg = 0 => nv.revsPerMinute = 6
        /\ lastArg = 50 => nv.revsPerMinute = 33
        /\ lastArg = 100 => nv.revsPerMinute = 60

\* C8 as amended: for every percent in [0,100] setSpeedPercent applies
\* 60*percent/100 truncated to a whole rpm and raised to at least 6:
\* 6 rpm for every percent below 11, 30 rpm at 50%, 60 rpm at 100%.
C8_SpeedPercentIsShareOfMaximum ==
    (lastOp = "setSpeedPercent" /\ lastArg \in 0..100) =>
        /\ nv.revsPerMinute =
               (IF (60 * lastArg) \div 100 < 6 THEN 6 ELSE (60 * lastArg) \div 100)
        /\ lastArg < 11 => nv.revsPerMinute = 6
        /\ lastArg = 50 => nv.revsPerMinute = 30
        /\ lastArg = 100 => nv.revsPerMinute = 60

\* C8 witness: 50% was requested and 30 rpm stored.
C8_Witness ==
    /\ lastOp = "setSpeedPercent"
    /\ lastArg = 50
    /\ nv.revsPerMinute = 30

\* C9: for every percent p in [0,100], after setBrightnessPercent(p) the
\* percentage re-derived from the stored multiplier, 100*multiplier/20,
\* is within 5 points of p.
C9_BrightnessPercentRoundTrip ==
    (lastOp = "setBrightnessPercent" /\ lastArg \in 0..100) =>
        Abs((100 * nv.brightnessMultiplier) \div 20 - lastArg) <= 5

\* C9 witness: 0% was requested; the multiplier stored is 1, five points off.
C9_Witness ==
    /\ lastOp = "setBrightnessPercent"
    /\ lastArg = 0
    /\ nv.brightnessMultiplier = 1

\* C10: for every raw brightness in [0,100], global scaling returns
\* raw*multiplier/20 rounded to the nearest integer, a value in [0,100],
\* the raw value itself at multiplier 20, and never less than it returns
\* for a smaller multiplier.
C10_GlobalScaling ==
    (lastOp = "globaliseBrightness" /\ lastArg \in 0..100) =>
        /\ ret \in 0..100
        /\ 2 * Abs(20 * ret - lastArg * nv.brightnessMultiplier) <= 20
        /\ nv.brightnessMultiplier = 20 => ret = lastArg
        /\ \A m \in 1..nv.brightnessMultiplier :
               GlobaliseBrightness(m, lastArg) <= ret

\* C10 witness: raw 50 at multiplier 1 is 2.5, scaled to 3.
C10_Witness ==
    /\ lastOp = "globaliseBrightness"
    /\ lastArg = 50
    /\ nv.brightnessMultiplier = 1
    /\ ret = 3

\* C11: shutdown() leaves the engine stopped with every LED output at duty
\* cycle 0, and while the engine is stopped neither poll() nor a settings
\* mutator writes an LED output.
C11_ShutdownSilencesOutputs ==
    [][ /\ lastOp' = "shutdown" =>
            /\ ~running'
            /\ pinWrites' = Len(leds)
            /\ \A i \in 1..Len(pins') : pins'[i] = 0
        /\ (~running /\ lastOp' \in Mutators \cup {"poll"}) =>
            /\ ~running'
            /\ pinWrites' = 0
            /\ pins' = pins ]_vars

\* C11 witness: a poll on a stopped engine whose LEDs were lit before the
\* shutdown, the outputs still at 0.
C11_Witness ==
    /\ lastOp = "poll"
    /\ ~running
    /\ Len(pins) = LifecycleLeds
    /\ \A i \in 1..Len(pins) : pins[i] = 0 /\ leds[i].brightness > 0

\* the sample of a cycle that has just started: lead angle 0, revolution 0
CycleStart(period) == [num |-> 0, den |-> period, revolution |-> 0]

\* C12: startUp() on a stopped engine takes the current time as the start of
\* the cycle, sets running, and renders one tick within the call from lead
\* angle 0 and revolution 0, however long the engine ran before it stopped.
C12_StartUpRestartsCycle ==
    [][ (lastOp' = "startUp" /\ ~running) =>
            /\ running'
            /\ startTimeMs' = now
            /\ info' = CycleStart(revTimePeriodMs)
            /\ lastRevolution' = 0
            /\ HasMethod(nv.pattern) =>
                   /\ pinWrites' = Len(leds)
                   /\ \A i \in 1..Len(leds) :
                          pins'[i] = BrightnessToDutyCycle(leds'[i].brightness)
            /\ nv.pattern \in JustOn..Heartbeat =>
                   \A i \in 1..Len(leds) :
                       leds'[i] = PatternStep(nv.pattern, nv.brightnessMultiplier,
                                              CycleStart(revTimePeriodMs),
                                              leds[i], 0, 0) ]_vars

\* C12 witness: a restart after more than EngineAge ms; the chase pattern
\* rendered at lead angle 0 lights the LED at 0 degrees to the default
\* maximum, 90, duty cycle 184.
C12_Witness ==
    /\ lastOp = "startUp"
    /\ running
    /\ startTimeMs >= EngineAge
    /\ now = startTimeMs + PollDelayMs
    /\ info.num = 0
    /\ info.revolution = 0
    /\ nv.pattern = ChaseClockwise
    /\ leds[1].brightness = 90
    /\ pins[1] = 184
    /\ pinWrites = Len(leds)

\* C13: the cycle clock is periodic: the sample taken k whole periods after
\* a poll has the lead angle of that poll and a revolution larger by k.
C13_CycleClockIsPeriodic ==
    (lastOp = "poll" /\ running) =>
        LET t == now - PollDelayMs
        IN /\ info = GetCurrentLightInfo(t, startTimeMs, revTimePeriodMs)
           /\ \A k \in 0..MaxTurns :
                  LET later == GetCurrentLightInfo(t + k * revTimePeriodMs,
                                                   startTimeMs, revTimePeriodMs)
                  IN /\ later.num = info.num
                     /\ later.den = info.den
                     /\ later.revolution = info.revolution + k

\* C13 witness: a poll 1020 ms into the 3333 ms cycle of the default speed,
\* a lead angle of 360 * 1020 / 3333 in revolution 0.
C13_Witness ==
    /\ lastOp = "poll"
    /\ running
    /\ revTimePeriodMs = PeriodOf(DEFAULT_SPEED)
    /\ startTimeMs = 2000
    /\ info.num = 360 * 1020
    /\ info.revolution = 0

\* C14: while the engine runs, the revolution a poll samples is never smaller
\* than the one the poll before it sampled, also when the speed was changed
\* between the two polls.
C14_RevolutionNeverDecreases ==
    [][ (lastOp' = "poll" /\ running) => lastRevolution' >= lastRevolution ]_vars

\* the lead angle of the last sample lies in [0, 360)
LeadInRange == 0 <= info.num /\ info.num < 360 * info.den

\* C15: after every poll of a running engine, whatever the pattern, the lead
\* angle lies in [0, 360), the brightness multiplier in [1, 20], and the
\* brightness stored for every LED is an integer in [0, 100].
C15_RenderedLevelsInRange ==
    (lastOp = "poll" /\ running /\ HasMethod(nv.pattern)) =>
        /\ LeadInRange
        /\ nv.brightnessMultiplier \in MIN_BRIGHTNESS..MAX_BRIGHTNESS
        /\ \A i \in 1..Len(leds) : leds[i].brightness \in 0..100

\* the poll just made rendered pattern at full brightness from lead angle 0
RenderedFromZero(pattern) ==
    /\ lastOp = "poll"
    /\ running
    /\ nv.pattern = pattern
    /\ nv.brightnessMultiplier = MAX_BRIGHTNESS
    /\ info.num = 0

\* the brightness stored for the LED at angle degrees is level
LedAt(angle, level) ==
    \A i \in 1..Len(leds) : leds[i].angle = angle => leds[i].brightness = level

\* C16 as stated: six LEDs chasing clockwise at multiplier 20 and lead
\* angle 0 show 100 at 0 degrees, 50 at 180 degrees and 17 at 300 degrees.
C16_ChaseAtZero_AsStated ==
    (RenderedFromZero(ChaseClockwise) /\ Len(leds) = DisplayLeds) =>
        /\ LedAt(0, 100)
        /\ LedAt(180, 50)
        /\ LedAt(300, 17)

\* C16 as the code has it: six LEDs chasing clockwise at multiplier 20 and
\* lead angle 0 show 100 at 0 degrees, 50 at 180 degrees, 83 at 300 degrees,
\* which the lead left 60 degrees ago, and 17 at 60 degrees, which it will
\* reach last.
C16_ChaseAtZero ==
    (RenderedFromZero(ChaseClockwise) /\ Len(leds) = DisplayLeds) =>
        /\ LedAt(0, 100)
        /\ LedAt(180, 50)
        /\ LedAt(300, 83)
        /\ LedAt(60, 17)

\* C16 witness: such a poll, with an LED at each of the four angles.
C16_Witness ==
    /\ RenderedFromZero(ChaseClockwise)
    /\ Len(leds) = DisplayLeds
    /\ \A a \in {0, 60, 180, 300} : \E i \in 1..Len(leds) : leds[i].angle = a
    /\ leds[DisplayLeds].angle = 300
    /\ leds[DisplayLeds].brightness = 83

\* the wrap-around distance, in [0, 180], of a whole-degree offset
WrapDistance(offset) ==
    LET m == Abs(offset) % 360 IN MinOf(m, 360 - m)

\* C17: WaveClockwise stores round(100 * (180 - d) / 180) before scaling,
\* d being the wrap-around distance between the LED and the lead angle,
\* also when the lead angle is the smaller of the two.
C17_WaveFollowsWrapDistance ==
    (lastOp = "poll" /\ running /\ nv.pattern = WaveClockwise
        /\ nv.brightnessMultiplier = MAX_BRIGHTNESS) =>
        \A i \in 1..Len(leds) :
            leds[i].brightness =
                Round(100 * (180 - WrapDistance(WaveOffset(info, leds[i].angle))),
                      180)

\* C18: Raindrop at multiplier 20 stores, for p = lead angle - scratch in
\* whole degrees, round(100 * p / 3) when 0 <= p < 3,
\* 100 - round(100 * (p - 3) / 9) when 3 <= p < 12 and 0 otherwise; a
\* scratch of 10 at lead angle 12 gives 67.
C18_RaindropProfile ==
    (lastOp = "poll" /\ running /\ nv.pattern = Raindrop
        /\ nv.brightnessMultiplier = MAX_BRIGHTNESS) =>
        \A i \in 1..Len(leds) :
            LET p == (info.num - leds[i].extra * info.den) \div info.den
                level == leds[i].brightness
            IN /\ (0 <= p /\ p < 3) => level = Round(100 * p, 3)
               /\ (3 <= p /\ p < 12) => level = 100 - Round(100 * (p - 3), 9)
               /\ (p < 0 \/ p >= 12) => level = 0
               /\ (leds[i].extra = 10 /\ info.num = 12 * info.den) => level = 67

\* C18 witness: a poll at lead angle 12 with an LED whose scratch is 10.
C18_Witness ==
    /\ lastOp = "poll"
    /\ running
    /\ nv.pattern = Raindrop
    /\ nv.brightnessMultiplier = MAX_BRIGHTNESS
    /\ info.num = 12 * info.den
    /\ \E i \in 1..Len(leds) : leds[i].extra = 10 /\ leds[i].brightness = 67

\* C19: the duty cycle conversion clamps its input to [0, 100] before it
\* reads the table of 101 entries, so the index is always in range; the
\* result lies in 0..255, never decreases as the input grows, and is 0 for 0
\* and 255 for 100.
C19_DutyCycleClampsAndGrows ==
    lastOp = "brightnessToDutyCycle" =>
        LET index == Clamp(lastArg, 0, 100)
        IN /\ Len(BRIGHTNESS_TO_DUTY_CYCLE) = 101
           /\ index + 1 \in DOMAIN BRIGHTNESS_TO_DUTY_CYCLE
           /\ ret = BRIGHTNESS_TO_DUTY_CYCLE[index + 1]
           /\ ret \in 0..255
           /\ lastArg <= 0 => ret = 0
           /\ lastArg >= 100 => ret = 255
           /\ \A b \in DutyInputs :
                  b <= lastArg => BrightnessToDutyCycle(b) <= ret

\* C19 witness: brightness 101, one past the table, is converted as 100.
C19_Witness ==
    /\ lastOp = "brightnessToDutyCycle"
    /\ lastArg = 101
    /\ ret = 255

\* the setting button's hold timeout fires in this step
PowerTimeoutFires ==
    settingBtn.trigger_timeout /\ ~settingBtn'.trigger_timeout

\* C20: when the setting button, pressed while the stand was in Running
\* mode, has been held for the 2 s of its timeout, the stand goes to sleep:
\* the mode becomes Sleep and the LED cluster is shut down.
C20_LongPressFromRunningSleeps ==
    [][ (PowerTimeoutFires /\ modeAtPress = Running) =>
            /\ mode' = Sleep
            /\ ~running'
            /\ \A i \in 1..Len(pins') : pins'[i] = 0 ]_vars

\* the setting button poll of this step sees a press
PressRegistered ==
    /\ loopStep = "setting"
    /\ loopStep' = "cluster"
    /\ settingBtn.lastState = 0
    /\ settingBtn'.lastState # 0

\* C21: a press of the setting button made while the stand is in Sleep mode
\* changes no mode, and when that press has been held for the 2 s of the
\* timeout the stand runs again: the mode becomes Running, the cluster is
\* started at that moment and renders a frame at once.
C21_LongPressFromSleepRuns ==
    [][ /\ (PressRegistered /\ mode = Sleep) =>
               /\ mode' = Sleep
               /\ UNCHANGED << indicatorLeds, running, pins >>
        /\ (PowerTimeoutFires /\ modeAtPress = Sleep) =>
               /\ mode' = Running
               /\ running'
               /\ startTimeMs' = now + ButtonDelayMs
               /\ info' = [num |-> 0, den |-> revTimePeriodMs, revolution |-> 0]
               /\ pinWrites' = Len(leds)
               /\ \A i \in 1..Len(pins') :
                      pins'[i] = BrightnessToDutyCycle(
                                     GlobaliseBrightness(nv.brightnessMultiplier,
                                                         100)) ]_vars

\* the stand woke from a press made in Sleep mode and its LEDs are lit
C21_Witness ==
    /\ lastOp = "startUp"
    /\ modeAtPress = Sleep
    /\ mode = Running
    /\ running
    /\ \A i \in 1..Len(pins) : pins[i] > 0

\* the setting button poll of this step sees a release
ReleaseRegistered ==
    /\ loopStep = "setting"
    /\ loopStep' = "cluster"
    /\ settingBtn.lastState # 0
    /\ settingBtn'.lastState = 0

\* C22: every press of the setting button moves the mode one place on in the
\* order Running, Pattern, Brightness, Speed, Pattern, ...; a press in Sleep
\* mode leaves the mode at Sleep; a release leaves the mode as it is.
C22_PressesCycleSettingModes ==
    [][ /\ PressRegistered =>
               /\ mode = Running => mode' = Pattern
               /\ mode = Pattern => mode' = Brightness
               /\ mode = Brightness => mode' = Speed
               /\ mode = Speed => mode' = Pattern
               /\ mode = Sleep => mode' = Sleep
        /\ ReleaseRegistered => mode' = mode ]_vars

\* a press made in Speed mode has brought the mode round to Pattern again
C22_Witness ==
    /\ settingBtn.lastState # 0
    /\ modeAtPress = Speed
    /\ mode = Pattern
    /\ modeLED = 1

\* the three setting modes
SettingModeSet == {Pattern, Brightness, Speed}

\* C23: when the end of a pass of loop() finds the stand in Pattern,
\* Brightness or Speed mode more than 10 s after the last setting of the mode,
\* it returns the mode to Running and turns the three indicator LEDs off; so
\* no pass of loop() ends in a setting mode that has been left alone for more
\* than 10 s.
C23_SettingModeTimesOut ==
    [][ /\ ( /\ loopStep = "inactivity"
             /\ mode \in SettingModeSet
             /\ now - lastModeChange > InactivityMs ) =>
               /\ mode' = Running
               /\ modeLED' = 0
               /\ brightnessLED' = 0
               /\ speedLED' = 0
        /\ (loopStep' = "buttons" /\ mode' \in SettingModeSet) =>
               now' - lastModeChange' <= InactivityMs ]_vars

\* the stand came back from a setting mode after 10 s without a press
C23_Witness ==
    /\ now > InactivityMs
    /\ loopStep = "buttons"
    /\ mode = Running
    /\ lastModeChange = 0
    /\ settingBtn.lastChangeMs < PressUptime
    /\ modeLED = 0 /\ brightnessLED = 0 /\ speedLED = 0

\* C24: once the engine is built over a valid or defaulted record, after any
\* sequence of mutator calls the stored pattern selector is one of the
\* PATTERN_COUNT known patterns, in EEPROM and in the in-memory copy alike.
C24_StoredPatternIsKnown ==
    pc = "run" =>
        /\ nv.pattern \in 0..(PATTERN_COUNT - 1)
        /\ settings.pattern \in 0..(PATTERN_COUNT - 1)

\* C25: a poll of the running engine whose stored pattern selector is none of
\* the known patterns renders nothing: it writes to no pin and changes no
\* LED's brightness or scratch value.
C25_UnknownPatternPollIsIdle ==
    [][ ( /\ lastOp' = "poll"
          /\ running
          /\ settings.pattern \notin 0..(PATTERN_COUNT - 1) ) =>
            /\ pinWrites' = 0
            /\ pins' = pins
            /\ leds' = leds
            /\ running' ]_vars

\* a poll under selector 12 has left the lit LEDs of an earlier frame as
\* they were
C25_Witness ==
    /\ lastOp = "poll"
    /\ running
    /\ settings.pattern = PATTERN_COUNT
    /\ pinWrites = 0
    /\ \E i \in 1..Len(leds) : leds[i].brightness > 0 /\ pins[i] > 0

\* C26: under WaveAntiClockwise at full brightness an LED stores the peak
\* value 100 only where its angle is, to the whole degree, (360 - lead) mod
\* 360: the LED's angle and the lead angle add up to a whole turn.
C26_WaveAcwPeakIsMirrored ==
    (lastOp = "poll" /\ running /\ nv.pattern = WaveAntiClockwise
        /\ nv.brightnessMultiplier = MAX_BRIGHTNESS) =>
        \A i \in 1..Len(leds) :
            leds[i].brightness = 100 =>
                WrapDistance(Trunc(info.num + leds[i].angle * info.den,
                                   info.den)) <= 1

\* C27: while the engine shows Raindrop, a poll draws a new scratch offset
\* for every LED when its revolution number differs from that of the poll
\* before it, and draws none and leaves every offset as it was when the
\* revolution is the same; every offset is in [0, 348), so that the 12 degrees
\* of its drop end within the revolution.
C27_RaindropsRedrawnPerRevolution ==
    [][ (lastOp' = "poll" /\ running /\ nv.pattern = Raindrop) =>
            /\ info'.revolution # info.revolution => randomCalls' = Len(leds)
            /\ info'.revolution = info.revolution =>
                   /\ randomCalls' = 0
                   /\ \A i \in 1..Len(leds) : leds'[i].extra = leds[i].extra
            /\ \A i \in 1..Len(leds) :
                   /\ leds'[i].extra \in 0..(360 - RAINDROP_ANGLE - 1)
                   /\ leds'[i].extra + RAINDROP_ANGLE <= 360 ]_vars

\* the second revolution has begun and a poll has drawn new offsets, the
\* largest of them among these
C27_Witness ==
    /\ lastOp = "poll"
    /\ running
    /\ nv.pattern = Raindrop
    /\ info.revolution = 1
    /\ randomCalls = Len(leds)
    /\ \E i \in 1..Len(leds) : leds[i].extra = 360 - RAINDROP_ANGLE - 1

\* C28: a tick under Flames or Static leaves every LED's scratch value in
\* [0, 100], whatever it was before, at the old value moved by one step of at
\* most 4 and clamped; under Flames the brightness stored is the scaled
\* scratch value, and under Static it is the scaled sum of the scratch value
\* and a noise term, clamped, the scratch value itself being that of Flames.
C28_FlameScratchStaysInRange ==
    [][ (lastOp' = "poll" /\ running /\ nv.pattern \in {Flames, Static}) =>
            \A i \in 1..Len(leds) :
                LET old == leds[i].extra
                    new == leds'[i].extra
                    mult == nv.brightnessMultiplier
                IN /\ new \in 0..100
                   /\ \E step \in (-4)..4 : new = Clamp(old + step, 0, 100)
                   /\ nv.pattern = Flames =>
                          leds'[i].brightness = GlobaliseBrightness(mult, new)
                   /\ nv.pattern = Static =>
                          \E noise \in (-10)..40 :
                              leds'[i].brightness =
                                  GlobaliseBrightness(mult,
                                                      Clamp(new + noise, 0, 100)) ]_vars

\* a Flames tick has brought a raindrop offset of 347 down to 100
C28_Witness ==
    /\ lastOp = "poll"
    /\ running
    /\ nv.pattern = Flames
    /\ info.revolution = 3
    /\ now = EngineAge + PollDelayMs
    /\ \E i \in 1..Len(leds) :
           /\ leds[i].extra = 100
           /\ leds[i].brightness = GlobaliseBrightness(nv.brightnessMultiplier, 100)

\* a Flames tick that moves the first LED's scratch value by k
FlameStepOf(k) == Poll /\ leds'[1].extra = leds[1].extra + k

\* C29: a Flames tick can move an LED's scratch value by any whole step from
\* -4 to +4: after a tick that left the scratch value where neither clamp
\* can touch the next step, a rise of 4 in the next tick is possible just as
\* a fall of 4 is.
C29_FlameStepsAreSymmetric ==
    ( /\ lastOp = "poll"
      /\ running
      /\ nv.pattern = Flames
      /\ now + PollDelayMs <= MaxNow
      /\ leds[1].extra \in 4..96 ) =>
        /\ ENABLED FlameStepOf(-4)
        /\ ENABLED FlameStepOf(4)

\* C30: every poll of the running engine samples a lead angle in [0, 360)
\* and a revolution number that is not negative, also when the run has
\* lasted longer than LongMax ms.
C30_SampleInRangeOnLongRuns ==
    (lastOp = "poll" /\ running) =>
        /\ 0 <= info.num
        /\ info.num < 360 * info.den
        /\ info.revolution >= 0

\* C31: a percentage of 100 or more, up to the largest int, is clamped and
\* not wrapped: setSpeedPercent leaves the speed at MAX_SPEED and
\* setBrightnessPercent leaves the multiplier at MAX_BRIGHTNESS.
C31_LargePercentsClampToMaximum ==
    /\ (lastOp = "setSpeedPercent" /\ lastArg >= 100) =>
           nv.revsPerMinute = MAX_SPEED
    /\ (lastOp = "setBrightnessPercent" /\ lastArg >= 100) =>
           nv.brightnessMultiplier = MAX_BRIGHTNESS

\* C34: once the engine is built, and after every settings mutator returns, the
\* in-memory settings copy equals the persisted record field for field.
C34_SettingsCopyMatchesRecord ==
    pc = "run" =>
        /\ settings.version = nv.version
        /\ settings.pattern = nv.pattern
        /\ settings.brightnessMultiplier = nv.brightnessMultiplier
        /\ settings.revsPerMinute = nv.revsPerMinute
        /\ settings.invalid = nv.invalid

\* a mutator has just written a new value to the record
C34_Witness ==
    /\ pc = "run"
    /\ lastOp \in Mutators
    /\ wrote
    /\ settings = nv
    /\ nv # DefaultSettings

\* C35: once the engine is built, and after every speed mutator returns, the
\* revolution period is 60000 / revsPerMinute of the persisted speed, in whole
\* milliseconds.
C35_PeriodFollowsSpeed ==
    pc = "run" => revTimePeriodMs = 60000 \div nv.revsPerMinute

\* a speed mutator has just moved the speed away from the default
C35_Witness ==
    /\ pc = "run"
    /\ lastOp \in {"setSpeedPercent", "updateSpeed"}
    /\ wrote
    /\ nv.revsPerMinute # DEFAULT_SPEED
    /\ revTimePeriodMs = 60000 \div nv.revsPerMinute

\* a poll of the up or the down button registers a press
ValuePressRegistered ==
    \/ loopStep = "up" /\ upBtn = 0 /\ upBtn' # 0
    \/ loopStep = "down" /\ downBtn = 0 /\ downBtn' # 0

\* C32: a press of Up or Down leaves the mode alone and changes, of the
\* persisted settings, at most the one the setting mode stands for; in Running
\* and Sleep it changes no setting and leaves lastModeChange alone.
C32_ValuePressTouchesOwnSetting ==
    [][ ValuePressRegistered =>
            /\ mode' = mode
            /\ mode = Pattern => nv' = [nv EXCEPT !.pattern = nv'.pattern]
            /\ mode = Brightness =>
                   nv' = [nv EXCEPT !.brightnessMultiplier =
                                        nv'.brightnessMultiplier]
            /\ mode = Speed =>
                   nv' = [nv EXCEPT !.revsPerMinute = nv'.revsPerMinute]
            /\ mode \in {Running, Sleep} =>
                   /\ nv' = nv
                   /\ lastModeChange' = lastModeChange ]_vars

\* Down was pressed in Speed mode after Up had been pressed in Brightness
\* mode: both settings moved and the pattern did not
C32_Witness ==
    /\ mode = Speed
    /\ downBtn # 0
    /\ lastOp = "updateSpeed"
    /\ lastArg = -1
    /\ wrote
    /\ nv.revsPerMinute = DEFAULT_SPEED - SPEED_STEP
    /\ nv.brightnessMultiplier = DEFAULT_BRIGHTNESS + 1
    /\ nv.pattern = ChaseClockwise

\* C33: between two passes of loop() the sketch is in Sleep mode exactly when
\* the cluster is not running.
C33_SleepIffClusterStopped ==
    (pc = "run" /\ loopStep = "buttons") => (mode = Sleep <=> ~running)

\* a stand whose setting button was held from power-up went to sleep on the
\* long press and was then woken by the command R
C33_Witness ==
    /\ loopStep = "buttons"
    /\ mode = Running
    /\ running
    /\ settingTrace.timeouts = 1
    /\ settingTrace.toggled = -1
    /\ startTimeMs > PanelHeldFrom

\* C38: between two passes of loop() each indicator LED is lit exactly when
\* the sketch is in the setting mode it stands for.
C38_IndicatorsMirrorMode ==
    (pc = "run" /\ loopStep = "buttons") =>
        /\ modeLED # 0 <=> mode = Pattern
        /\ brightnessLED # 0 <=> mode = Brightness
        /\ speedLED # 0 <=> mode = Speed

\* in Brightness mode the command S stepped the speed and a press of Down
\* stepped the brightness, each with its blink
C38_Witness ==
    /\ loopStep = "buttons"
    /\ mode = Brightness
    /\ brightnessLED = 1
    /\ speedLED = 0
    /\ modeLED = 0
    /\ downBtn = 1
    /\ nv.revsPerMinute = DEFAULT_SPEED + SPEED_STEP
    /\ nv.brightnessMultiplier = DEFAULT_BRIGHTNESS - 1

\* loop() makes its call of settingSelectionBtn.poll()
SettingPolled == loopStep = "setting" /\ loopStep' = "cluster"

\* C36: a poll makes the toggle callback only when its two reads agree and
\* differ from the state last reported, and hands it that level, so the states
\* handed to successive toggle callbacks alternate; a poll whose two reads
\* disagree makes no callback and changes neither the helper nor the sketch.
C36_ToggleIsDebounced ==
    [][ SettingPolled =>
            /\ settingTrace'.fired = "toggle" =>
                   /\ settingTrace'.a = settingTrace'.b
                   /\ settingTrace'.state = settingTrace'.a
                   /\ settingTrace'.state # settingBtn.lastState
                   /\ settingTrace'.state # settingTrace.toggled
            /\ settingTrace'.a # settingTrace'.b =>
                   /\ settingTrace'.fired = "none"
                   /\ settingBtn' = settingBtn
                   /\ mode' = mode
                   /\ running' = running
                   /\ lastModeChange' = lastModeChange
                   /\ indicatorLeds' = indicatorLeds ]_vars

\* the button was pressed, released and pressed again: the toggle callback
\* was handed 1, 0 and 1, and the second press moved the mode on to Brightness
C36_Witness ==
    /\ settingTrace.fired = "toggle"
    /\ settingTrace.state = 1
    /\ settingTrace.toggled = 1
    /\ mode = Brightness
    /\ now >= 5 * LoopPassMs

\* C37: a poll makes the timeout callback only when it reads the input high
\* twice, the input has been reported high for at least the timeout duration,
\* and no timeout callback was made since the last toggle callback; the last
\* toggle callback, if any, reported a press.
C37_TimeoutOncePerPress ==
    [][ (SettingPolled /\ settingTrace'.fired = "timeout") =>
            /\ settingTrace'.a = 1
            /\ settingTrace'.b = 1
            /\ settingBtn.lastState = 1
            /\ now - settingBtn.lastChangeMs >= PowerTimeoutMs
            /\ settingTrace'.duration >= PowerTimeoutMs
            /\ settingTrace.timeouts = 0
            /\ settingTrace.toggled # 0 ]_vars

\* the stand that a first long press put to sleep is woken by the long press
\* that followed a release: the timeout callback is made a second time
C37_Witness ==
    /\ settingTrace.fired = "timeout"
    /\ settingTrace.toggled = 1
    /\ settingTrace.timeouts = 1
    /\ now > RearmedFrom
    /\ mode = Running
    /\ running
    /\ startTimeMs > RearmedFrom

====
